---- MODULE Spec2Model ----
(***************************************************************************)
(* A model of pptx/oxml.py: the typed wrappers over the lxml element tree  *)
(* (core properties, table) as state machines over an explicit XML tree.   *)
(*                                                                         *)
(* Text is a sequence of one-character strings, so that length checks,     *)
(* slicing, formatting and parsing are computed, not assumed.  An optional *)
(* value (Python's None or a value) is a sequence of length 0 or 1.        *)
(***************************************************************************)
EXTENDS Integers, Sequences, FiniteSets, TLC

VARIABLES
    tbl,        \* the <a:tbl> element under manipulation: <<>> or <<element>>
    assigned,   \* per boolean property: truthiness of the last value assigned
    cp,         \* the <cp:coreProperties> element: <<>> or <<element>>
    nsets,      \* how many setter calls were made on cp
    tc,         \* the <a:tc> element under manipulation: <<>> or <<element>>
    shape,      \* the <p:sp> element built last: <<>> or <<element>>
    graphicFrame, \* the <p:graphicFrame> element built last: <<>> or <<element>>
    ret,        \* what the last call of a plain function returned: <<>> or <<value>>
    para,       \* the <a:p> element under manipulation: <<>> or <<element>>
    call,       \* the last call made: [op, name, args]
    exc         \* the exception that call raised, or "none"

vars == <<tbl, assigned, cp, nsets, tc, shape, graphicFrame, ret, para, call, exc>>

\* ------------------------------------------------------------------ bounds
MaxRows == 3
MaxCols == 3
MaxEmu == 5
MaxSets == 2

\* ------------------------------------------------------- Python values
None == <<>>
Some(x) == <<x>>

Digits == <<"0", "1", "2", "3", "4", "5", "6", "7", "8", "9">>

IsDigit(c) == \E i \in 1..10 : Digits[i] = c

DigitVal(c) == (CHOOSE i \in 1..10 : Digits[i] = c) - 1

RECURSIVE NatStr(_)
NatStr(n) == IF n < 10 THEN <<Digits[n + 1]>>
             ELSE NatStr(n \div 10) \o <<Digits[(n % 10) + 1]>>

\* str(i) of a Python int
IntStr(i) == IF i < 0 THEN <<"-">> \o NatStr(-i) ELSE NatStr(i)

RECURSIVE DigitsVal(_)
RECURSIVE Strip(_)
DigitsVal(s) == IF Len(s) = 0 THEN 0
                ELSE 10 * DigitsVal(SubSeq(s, 1, Len(s) - 1)) + DigitVal(s[Len(s)])

AllDigits(s) == Len(s) > 0 /\ \A i \in 1..Len(s) : IsDigit(s[i])

\* int(s) of a text: [ok |-> FALSE] stands for ValueError
Strip(s) ==
    IF Len(s) > 0 /\ s[1] = " " THEN Strip(Tail(s))
    ELSE IF Len(s) > 0 /\ s[Len(s)] = " " THEN Strip(SubSeq(s, 1, Len(s) - 1))
    ELSE s

ParseInt(text) ==
    LET s == Strip(text)
        signed == Len(s) > 0 /\ s[1] \in {"-", "+"}
        body == IF signed THEN SubSeq(s, 2, Len(s)) ELSE s
    IN  IF AllDigits(body)
        THEN [ok |-> TRUE,
              val |-> IF signed /\ s[1] = "-" THEN 0 - DigitsVal(body) ELSE DigitsVal(body)]
        ELSE [ok |-> FALSE, val |-> 0]

NoDatetime == [year |-> 0, month |-> 0, day |-> 0, hour |-> 0, minute |-> 0,
               second |-> 0, microsecond |-> 0]

\* a Python object passed as an argument: its type and its payload
PyValue(type, i, s, dt) == [type |-> type, i |-> i, s |-> s, dt |-> dt]
PyInt(i) == PyValue("int", i, <<>>, NoDatetime)
PyBool(b) == PyValue("bool", IF b THEN 1 ELSE 0, <<>>, NoDatetime)
PyStr(s) == PyValue("str", 0, s, NoDatetime)
PyUnicode(s) == PyValue("unicode", 0, s, NoDatetime)
PyNone == PyValue("NoneType", 0, <<>>, NoDatetime)
PyFloat(repr) == PyValue("float", 0, repr, NoDatetime)
PyDatetime(dt) == PyValue("datetime", 0, <<>>, dt)
PyDate(dt) == PyValue("date", 0, <<>>, dt)

\* `if value:`
Truthy(v) ==
    CASE v.type \in {"int", "bool"} -> v.i # 0
      [] v.type \in {"str", "unicode"} -> Len(v.s) > 0
      [] v.type = "NoneType" -> FALSE
      [] v.type = "float" -> v.s # <<"0", ".", "0">>
      [] OTHER -> TRUE

Call(op, name, args) == [op |-> op, name |-> name, args |-> args]
NoCall == Call("none", "", <<>>)

\* --------------------------------------------------- datetime (Python 2)
Datetime(y, m, d, H, M, S, us) ==
    [year |-> y, month |-> m, day |-> d, hour |-> H, minute |-> M, second |-> S,
     microsecond |-> us]

IsLeap(y) == y % 4 = 0 /\ (y % 100 # 0 \/ y % 400 = 0)

DaysInMonth(y, m) ==
    IF m = 2 THEN (IF IsLeap(y) THEN 29 ELSE 28)
    ELSE IF m \in {4, 6, 9, 11} THEN 30 ELSE 31

DaysBeforeMonthTable == <<0, 31, 59, 90, 120, 151, 181, 212, 243, 273, 304, 334>>

DaysBeforeMonth(y, m) == DaysBeforeMonthTable[m] + (IF m > 2 /\ IsLeap(y) THEN 1 ELSE 0)

DaysBeforeYear(y) ==
    ((y - 1) * 365) + ((y - 1) \div 4) - ((y - 1) \div 100) + ((y - 1) \div 400)

\* date.toordinal()
Ymd2Ord(y, m, d) == DaysBeforeYear(y) + DaysBeforeMonth(y, m) + d

\* date.fromordinal(n), as datetime._ord2ymd computes it
Ord2Ymd(ordinal) ==
    LET n0 == ordinal - 1
        n400 == n0 \div 146097
        r400 == n0 % 146097
        n100 == r400 \div 36524
        r100 == r400 % 36524
        n4 == r100 \div 1461
        r4 == r100 % 1461
        n1 == r4 \div 365
        n == r4 % 365
        year == (n400 * 400) + 1 + (n100 * 100) + (n4 * 4) + n1
        leapyear == n1 = 3 /\ (n4 # 24 \/ n100 = 3)
        month0 == (n + 50) \div 32
        preceding0 == DaysBeforeMonthTable[month0] + (IF month0 > 2 /\ leapyear THEN 1 ELSE 0)
        month == IF preceding0 > n THEN month0 - 1 ELSE month0
        preceding == IF preceding0 > n
                     THEN preceding0 - ((IF month = 2 /\ leapyear THEN 29
                                         ELSE DaysInMonth(2001, month)))
                     ELSE preceding0
    IN  IF n1 = 4 \/ n100 = 4
        THEN [year |-> year - 1, month |-> 12, day |-> 31]
        ELSE [year |-> year, month |-> month, day |-> (n - preceding) + 1]

\* dt + timedelta(seconds=delta); OverflowError outside years 1..9999
DatetimeAdd(dt, delta) ==
    LET secs == (dt.hour * 3600) + (dt.minute * 60) + dt.second + delta
        days == Ymd2Ord(dt.year, dt.month, dt.day) + (secs \div 86400)
        rem == secs % 86400
        ymd == Ord2Ymd(days)
    IN  IF days > 0 /\ days <= 3652059
        THEN [exc |-> "none",
              val |-> Some(Datetime(ymd.year, ymd.month, ymd.day, rem \div 3600,
                                    (rem % 3600) \div 60, rem % 60, dt.microsecond))]
        ELSE [exc |-> "OverflowError", val |-> None]

Pad(n, width) ==
    LET str == NatStr(n)
    IN  [k \in 1..(width - Len(str)) |-> "0"] \o str

StrftimeNoPad(dt) ==
    NatStr(dt.year) \o <<"-">> \o NatStr(dt.month) \o <<"-">> \o NatStr(dt.day) \o <<"T">>
        \o NatStr(dt.hour) \o <<":">> \o NatStr(dt.minute) \o <<":">> \o NatStr(dt.second)
        \o <<"Z">>

\* value.strftime('%Y-%m-%dT%H:%M:%SZ')
Strftime(dt) ==
    Pad(dt.year, 4) \o <<"-">> \o Pad(dt.month, 2) \o <<"-">> \o Pad(dt.day, 2) \o <<"T">>
        \o Pad(dt.hour, 2) \o <<":">> \o Pad(dt.minute, 2) \o <<":">> \o Pad(dt.second, 2)
        \o <<"Z">>

\* The directives of strptime, each as the alternatives of its regular
\* expression in order: [len, lo, hi, sp] is len characters (digits, after a
\* leading space when sp) whose value is in lo..hi.
Alt(len, lo, hi, sp) == [len |-> len, lo |-> lo, hi |-> hi, sp |-> sp]

DirectiveAlts(d) ==
    CASE d = "%Y" -> <<Alt(4, 0, 9999, FALSE)>>
      [] d = "%m" -> <<Alt(2, 10, 12, FALSE), Alt(2, 1, 9, FALSE), Alt(1, 1, 9, FALSE)>>
      [] d = "%d" -> <<Alt(2, 30, 31, FALSE), Alt(2, 10, 29, FALSE), Alt(2, 1, 9, FALSE),
                       Alt(1, 1, 9, FALSE), Alt(2, 1, 9, TRUE)>>
      [] d = "%H" -> <<Alt(2, 20, 23, FALSE), Alt(2, 0, 19, FALSE), Alt(1, 0, 9, FALSE)>>
      [] d = "%M" -> <<Alt(2, 0, 59, FALSE), Alt(1, 0, 9, FALSE)>>
      [] d = "%S" -> <<Alt(2, 60, 61, FALSE), Alt(2, 0, 59, FALSE), Alt(1, 0, 9, FALSE)>>

IsDirective(item) == item \in {"%Y", "%m", "%d", "%H", "%M", "%S"}

\* does alternative a match s at pos
AltMatches(s, pos, a) ==
    LET lex == SubSeq(s, pos, pos + a.len - 1)
        digits == IF a.sp THEN Tail(lex) ELSE lex
    IN  /\ pos + a.len - 1 <= Len(s)
        /\ a.sp => lex[1] = " "
        /\ AllDigits(digits)
        /\ DigitsVal(digits) \in a.lo..a.hi

AltValue(s, pos, a) ==
    LET lex == SubSeq(s, pos, pos + a.len - 1)
    IN  DigitsVal(IF a.sp THEN Tail(lex) ELSE lex)

StrptimeDefaults == [Y |-> 1900, m |-> 1, d |-> 1, H |-> 0, M |-> 0, S |-> 0]

SetField(fields, d, v) ==
    CASE d = "%Y" -> [fields EXCEPT !.Y = v]
      [] d = "%m" -> [fields EXCEPT !.m = v]
      [] d = "%d" -> [fields EXCEPT !.d = v]
      [] d = "%H" -> [fields EXCEPT !.H = v]
      [] d = "%M" -> [fields EXCEPT !.M = v]
      [] d = "%S" -> [fields EXCEPT !.S = v]

\* The matches of the format's regular expression at pos, in the order a
\* backtracking matcher finds them: a sequence of [end, fields].
RECURSIVE ReMatch(_, _, _, _)
RECURSIVE ReMatchAlts(_, _, _, _, _)
ReMatchAlts(s, pos, fmt, fields, alts) ==
    IF alts = <<>> THEN <<>>
    ELSE (IF AltMatches(s, pos, Head(alts))
          THEN ReMatch(s, pos + Head(alts).len, Tail(fmt),
                       SetField(fields, Head(fmt), AltValue(s, pos, Head(alts))))
          ELSE <<>>)
         \o ReMatchAlts(s, pos, fmt, fields, Tail(alts))

ReMatch(s, pos, fmt, fields) ==
    IF fmt = <<>> THEN <<[end |-> pos, fields |-> fields]>>
    ELSE IF IsDirective(Head(fmt))
    THEN ReMatchAlts(s, pos, fmt, fields, DirectiveAlts(Head(fmt)))
    ELSE IF pos <= Len(s) /\ s[pos] = Head(fmt)
    THEN ReMatch(s, pos + 1, Tail(fmt), fields)
    ELSE <<>>

\* datetime.strptime(s, fmt): [ok |-> FALSE] stands for ValueError
Strptime(s, fmt) ==
    LET found == ReMatch(s, 1, fmt, StrptimeDefaults)
        f == found[1].fields
    IN  IF found = <<>> \/ found[1].end # Len(s) + 1
        THEN [ok |-> FALSE, dt |-> NoDatetime]
        ELSE IF f.Y < 1 \/ f.d > DaysInMonth(f.Y, f.m) \/ f.S > 59
        THEN [ok |-> FALSE, dt |-> NoDatetime]
        ELSE [ok |-> TRUE, dt |-> Datetime(f.Y, f.m, f.d, f.H, f.M, f.S, 0)]

\* ------------------------------------------------------------ XML tree
XSD_TRUE == <<"1">>

El(tag, attrib, text, children) ==
    [tag |-> tag, attrib |-> attrib, text |-> text, children |-> children]

Attr(name, value) == [name |-> name, value |-> value]

\* name in elm.attrib
HasAttr(elm, name) == \E i \in 1..Len(elm.attrib) : elm.attrib[i].name = name

AttrIdx(elm, name) == CHOOSE i \in 1..Len(elm.attrib) : elm.attrib[i].name = name

\* elm.get(name): None when the attribute is not there
GetAttr(elm, name) ==
    IF HasAttr(elm, name) THEN Some(elm.attrib[AttrIdx(elm, name)].value) ELSE None

\* elm.set(name, value): overwrite in place, or append
SetAttr(elm, name, value) ==
    IF HasAttr(elm, name)
    THEN [elm EXCEPT !.attrib[AttrIdx(elm, name)].value = value]
    ELSE [elm EXCEPT !.attrib = Append(@, Attr(name, value))]

\* del elm.attrib[name]
DelAttr(elm, name) ==
    LET k == AttrIdx(elm, name)
    IN  [elm EXCEPT !.attrib = SubSeq(@, 1, k - 1) \o SubSeq(@, k + 1, Len(@))]

HasChild(elm, tag) == \E i \in 1..Len(elm.children) : elm.children[i].tag = tag

\* position of the first child with that tag (objectify attribute lookup)
ChildIdx(elm, tag) ==
    CHOOSE i \in 1..Len(elm.children) :
        /\ elm.children[i].tag = tag
        /\ \A j \in 1..(i - 1) : elm.children[j].tag # tag

Child(elm, tag) == elm.children[ChildIdx(elm, tag)]

AppendChild(elm, c) == [elm EXCEPT !.children = Append(@, c)]

\* elm.insert(0, c)
InsertFirst(elm, c) == [elm EXCEPT !.children = <<c>> \o @]

ReplaceChild(elm, tag, c) == [elm EXCEPT !.children[ChildIdx(elm, tag)] = c]

\* ---------------------------------------------------------- CT_TableCell
\* a cell template without the empty <a:tcPr/> child
NewTcNoTcPr ==
    El("a:tc", <<>>, None,
       << El("a:txBody", <<>>, None,
             << El("a:bodyPr", <<>>, None, <<>>),
                El("a:lstStyle", <<>>, None, <<>>),
                El("a:p", <<>>, None, <<>>) >>) >>)

new_tc ==
    El("a:tc", <<>>, None,
       << El("a:txBody", <<>>, None,
             << El("a:bodyPr", <<>>, None, <<>>),
                El("a:lstStyle", <<>>, None, <<>>),
                El("a:p", <<>>, None, <<>>) >>),
          El("a:tcPr", <<>>, None, <<>>) >>)

\* -------------------------------------------------------------- CT_Table
BOOLPROPS == {"bandCol", "bandRow", "firstCol", "firstRow", "lastCol", "lastRow"}

DefaultTableStyleId == <<"{5C22544A-7EE6-4342-B048-85BDC9FD1C3A}">>

TblTmplNoBanding(tableStyleId) ==
    El("a:tbl", <<>>, None,
       << El("a:tblPr", <<Attr("firstRow", <<"1">>)>>, None,
             << El("a:tableStyleId", <<>>, Some(tableStyleId), <<>>) >>),
          El("a:tblGrid", <<>>, None, <<>>) >>)

_tbl_tmpl(tableStyleId) ==
    El("a:tbl", <<>>, None,
       << El("a:tblPr", <<Attr("firstRow", <<"1">>), Attr("bandRow", <<"1">>)>>, None,
             << El("a:tableStyleId", <<>>, Some(tableStyleId), <<>>) >>),
          El("a:tblGrid", <<>>, None, <<>>) >>)

has_tblPr(t) == HasChild(t, "a:tblPr")

_get_boolean_property(t, propname) ==
    IF ~has_tblPr(t) THEN FALSE
    ELSE GetAttr(Child(t, "a:tblPr"), propname) \in {Some(<<"1">>), Some(<<"t", "r", "u", "e">>)}

_get_or_insert_tblPr(t) ==
    IF ~has_tblPr(t) THEN InsertFirst(t, El("a:tblPr", <<>>, None, <<>>)) ELSE t

SetBooleanPropertyMissedDelete(t, propname, value) ==
    IF Truthy(value)
    THEN LET t1 == _get_or_insert_tblPr(t)
         IN  ReplaceChild(t1, "a:tblPr", SetAttr(Child(t1, "a:tblPr"), propname, XSD_TRUE))
    ELSE IF ~has_tblPr(t) THEN t
    ELSE IF HasAttr(Child(t, "a:tblPr"), propname)
    THEN ReplaceChild(t, "a:tblPr", SetAttr(Child(t, "a:tblPr"), propname, <<"0">>))
    ELSE t

\* a setter that prunes the block once its last attribute is removed
SetBooleanPropertyPrunes(t, propname, value) ==
    IF Truthy(value)
    THEN LET t1 == _get_or_insert_tblPr(t)
         IN  ReplaceChild(t1, "a:tblPr", SetAttr(Child(t1, "a:tblPr"), propname, XSD_TRUE))
    ELSE IF ~has_tblPr(t) THEN t
    ELSE LET tblPr == Child(t, "a:tblPr")
             cleared == IF HasAttr(tblPr, propname) THEN DelAttr(tblPr, propname) ELSE tblPr
         IN  IF Len(cleared.attrib) = 0
             THEN [t EXCEPT !.children = SelectSeq(@, LAMBDA c : c.tag # "a:tblPr")]
             ELSE ReplaceChild(t, "a:tblPr", cleared)

\* the table after `tbl.<propname> = value`
_set_boolean_property(t, propname, value) ==
    IF Truthy(value)
    THEN LET t1 == _get_or_insert_tblPr(t)
         IN  ReplaceChild(t1, "a:tblPr", SetAttr(Child(t1, "a:tblPr"), propname, XSD_TRUE))
    ELSE IF ~has_tblPr(t) THEN t
    ELSE IF HasAttr(Child(t, "a:tblPr"), propname)
    THEN ReplaceChild(t, "a:tblPr", DelAttr(Child(t, "a:tblPr"), propname))
    ELSE t

PartsNoAdjust(n, total) == [k \in 1..n |-> total \div n]

\* the widths written to the gridCol elements (the heights written to the
\* tr elements): n equal parts, the last one adjusted
Parts(n, total) ==
    [k \in 1..n |-> IF k = n THEN total - ((n - 1) * (total \div n)) ELSE total \div n]

RECURSIVE Cells(_)
Cells(cols) == IF cols = 0 THEN <<>> ELSE Append(Cells(cols - 1), new_tc)

\* the tree new_tbl returns for rows >= 1 and cols >= 1
new_tbl(rows, cols, width, height) ==
    LET t0 == _tbl_tmpl(DefaultTableStyleId)
        colwidth == Parts(cols, width)
        rowheight == Parts(rows, height)
        gridCols == [col \in 1..cols |->
                        El("a:gridCol", <<Attr("w", IntStr(colwidth[col]))>>, None, <<>>)]
        trs == [row \in 1..rows |->
                        El("a:tr", <<Attr("h", IntStr(rowheight[row]))>>, None, Cells(cols))]
        t1 == ReplaceChild(t0, "a:tblGrid", [Child(t0, "a:tblGrid") EXCEPT !.children = gridCols])
    IN  [t1 EXCEPT !.children = @ \o trs]

NeverAssigned == [p \in BOOLPROPS |-> "none"]

\* tbl = CT_Table.new_tbl(rows, cols, width, height); height/rows and
\* width/cols raise ZeroDivisionError for a zero count, and nothing is returned
NewTbl(Rows, Cols, Emus) ==
    /\ tbl = None
    /\ \E rows \in Rows, cols \in Cols, width \in Emus, height \in Emus :
        /\ call' = Call("new_tbl", "", <<PyInt(rows), PyInt(cols), PyInt(width), PyInt(height)>>)
        /\ IF rows = 0 \/ cols = 0
           THEN /\ exc' = "ZeroDivisionError"
                /\ tbl' = None
                /\ assigned' = NeverAssigned
           ELSE /\ exc' = "none"
                /\ tbl' = Some(new_tbl(rows, cols, width, height))
                /\ assigned' = NeverAssigned
        /\ UNCHANGED <<cp, nsets, tc, shape, graphicFrame, ret, para>>

\* tables read from a slide part with oxml_fromstring
ParsedTables ==
    { El("a:tbl", <<>>, None, <<El("a:tblGrid", <<>>, None, <<>>)>>),
      El("a:tbl", <<>>, None,
         << El("a:tblPr", <<>>, None, <<>>), El("a:tblGrid", <<>>, None, <<>>) >>),
      El("a:tbl", <<>>, None,
         << El("a:tblPr", <<Attr("bandCol", <<"t", "r", "u", "e">>), Attr("lastRow", <<"0">>)>>,
               None, <<>>),
            El("a:tblGrid", <<>>, None, <<>>) >>) }

FromstringTbl ==
    /\ tbl = None
    /\ \E t \in ParsedTables :
        /\ tbl' = Some(t)
        /\ assigned' = NeverAssigned
        /\ call' = Call("oxml_fromstring", "a:tbl", <<>>)
        /\ exc' = "none"
        /\ UNCHANGED <<cp, nsets, tc, shape, graphicFrame, ret, para>>

BoolInputs == {PyBool(TRUE), PyBool(FALSE), PyInt(0), PyInt(1), PyNone}

\* CT_Table.__setattr__ for a name in BOOLPROPS
SetBooleanProperty ==
    /\ tbl # None
    /\ \E propname \in BOOLPROPS, value \in BoolInputs :
        /\ tbl' = Some(_set_boolean_property(tbl[1], propname, value))
        /\ assigned' = [assigned EXCEPT ![propname] = IF Truthy(value) THEN "truthy" ELSE "falsy"]
        /\ call' = Call("_set_boolean_property", propname, <<>>)
        /\ exc' = "none"
        /\ UNCHANGED <<cp, nsets, tc, shape, graphicFrame, ret, para>>

InitTbl ==
    /\ tbl = None
    /\ assigned = NeverAssigned
    /\ cp = None
    /\ nsets = 0
    /\ tc = None
    /\ shape = None
    /\ graphicFrame = None
    /\ ret = None
    /\ para = None
    /\ call = NoCall
    /\ exc = "none"

\* the table factory over its input space
NextGrid == NewTbl(0..MaxRows, 0..MaxCols, (0 - 1)..MaxEmu)

SpecGrid == InitTbl /\ [][NextGrid]_vars

\* a table made by the factory or read from a part, then its properties set
NextTbl ==
    \/ NewTbl({0, 1}, {1}, {MaxEmu})
    \/ FromstringTbl
    \/ SetBooleanProperty

SpecTbl == InitTbl /\ [][NextTbl]_vars

\* ----------------------------------------------------- CT_CoreProperties
_date_tags ==
    [created |-> "dcterms:created", last_printed |-> "cp:lastPrinted",
     modified |-> "dcterms:modified"]

_str_tags ==
    [author |-> "dc:creator", category |-> "cp:category", comments |-> "dc:description",
     content_status |-> "cp:contentStatus", identifier |-> "dc:identifier",
     keywords |-> "cp:keywords", language |-> "dc:language",
     last_modified_by |-> "cp:lastModifiedBy", subject |-> "dc:subject",
     title |-> "dc:title", version |-> "cp:version"]

MaxStrLen == 255

new_coreProperties == El("cp:coreProperties", <<>>, None, <<>>)

\* characters outside ASCII, each written as its code point
NonAscii == {"U+00E9"}

\* str(value) in Python 2: a unicode object is encoded with the ascii codec
PyStrOf(v) ==
    CASE v.type = "unicode" ->
            IF \E i \in 1..Len(v.s) : v.s[i] \in NonAscii
            THEN [exc |-> "UnicodeEncodeError", s |-> <<>>]
            ELSE [exc |-> "none", s |-> v.s]
      [] v.type = "int" -> [exc |-> "none", s |-> IntStr(v.i)]
      [] v.type = "bool" ->
            [exc |-> "none",
             s |-> IF v.i = 1 THEN <<"T", "r", "u", "e">> ELSE <<"F", "a", "l", "s", "e">>]
      [] v.type = "NoneType" -> [exc |-> "none", s |-> <<"N", "o", "n", "e">>]
      [] OTHER -> [exc |-> "none", s |-> v.s]

\* an assignment that always appends a new child, never replacing one
SetChildTextAppends(elm, tag, text) ==
    AppendChild(elm, El(tag, <<Attr("py:pytype", <<"s", "t", "r">>)>>, Some(text), <<>>))

\* setattr(elm, tag, text) of an ObjectifiedElement: a new element holding
\* the text (with objectify's py:pytype annotation) replaces the first child
\* with that tag, or is appended when there is none
SetChildText(elm, tag, text) ==
    LET new_element == El(tag, <<Attr("py:pytype", <<"s", "t", "r">>)>>, Some(text), <<>>)
    IN  IF HasChild(elm, tag) THEN ReplaceChild(elm, tag, new_element)
        ELSE AppendChild(elm, new_element)

__get_str_prop(elm, name) ==
    IF ~HasChild(elm, _str_tags[name]) THEN Some(<<>>)
    ELSE Child(elm, _str_tags[name]).text

SetStrPropCheckAfterWrite(elm, name, value) ==
    LET conv == PyStrOf(value)
    IN  IF conv.exc # "none" THEN [exc |-> conv.exc, elm |-> elm]
        ELSE [exc |-> IF Len(conv.s) > MaxStrLen
                      THEN "ValueError: exceeded 255 char max length" ELSE "none",
              elm |-> SetChildText(elm, _str_tags[name], conv.s)]

SetStrPropOffByOne(elm, name, value) ==
    LET conv == PyStrOf(value)
    IN  IF conv.exc # "none" THEN [exc |-> conv.exc, elm |-> elm]
        ELSE IF Len(conv.s) >= MaxStrLen
        THEN [exc |-> "ValueError: exceeded 255 char max length", elm |-> elm]
        ELSE [exc |-> "none", elm |-> SetChildText(elm, _str_tags[name], conv.s)]

__set_str_prop(elm, name, value) ==
    LET conv == PyStrOf(value)
    IN  IF conv.exc # "none" THEN [exc |-> conv.exc, elm |-> elm]
        ELSE IF Len(conv.s) > MaxStrLen
        THEN [exc |-> "ValueError: exceeded 255 char max length", elm |-> elm]
        ELSE [exc |-> "none", elm |-> SetChildText(elm, _str_tags[name], conv.s)]

W3CDTF_TYPE == <<"d", "c", "t", "e", "r", "m", "s", ":", "W", "3", "C", "D", "T", "F">>

\* a setter that forgets to take the throwaway attribute off the root
SetDatePropKeepsFoo(elm, name, value) ==
    IF value.type # "datetime"
    THEN [exc |-> "ValueError: requires datetime", elm |-> elm]
    ELSE LET tag == _date_tags[name]
             e1 == SetChildText(elm, tag, Strftime(value.dt))
             e2 == SetAttr(e1, "xsi:foo", <<"b", "a", "r">>)
             e3 == ReplaceChild(e2, tag, SetAttr(Child(e2, tag), "xsi:type", W3CDTF_TYPE))
         IN  [exc |-> "none",
              elm |-> IF name \in {"created", "modified"} THEN e3 ELSE e1]

__set_date_prop(elm, name, value) ==
    IF value.type # "datetime"
    THEN [exc |-> "ValueError: requires datetime", elm |-> elm]
    ELSE LET tag == _date_tags[name]
             e1 == SetChildText(elm, tag, Strftime(value.dt))
             e2 == SetAttr(e1, "xsi:foo", <<"b", "a", "r">>)
             e3 == ReplaceChild(e2, tag, SetAttr(Child(e2, tag), "xsi:type", W3CDTF_TYPE))
         IN  [exc |-> "none",
              elm |-> IF name \in {"created", "modified"} THEN DelAttr(e3, "xsi:foo") ELSE e1]

\* isinstance(value, int) holds for a bool too
__set_revision(elm, value) ==
    IF value.type \notin {"int", "bool"} \/ value.i < 1
    THEN [exc |-> "ValueError: revision requires positive int", elm |-> elm]
    ELSE [exc |-> "none", elm |-> SetChildText(elm, "cp:revision", PyStrOf(value).s)]

_offset_pattern_match(offset_str) ==
    /\ Len(offset_str) >= 6
    /\ offset_str[1] \in {"+", "-"}
    /\ IsDigit(offset_str[2]) /\ IsDigit(offset_str[3])
    /\ offset_str[4] = ":"
    /\ IsDigit(offset_str[5]) /\ IsDigit(offset_str[6])

OffsetDtSameSign(dt, offset_str) ==
    IF ~_offset_pattern_match(offset_str) THEN [exc |-> "ValueError", val |-> None]
    ELSE LET sign_factor == IF offset_str[1] = "+" THEN 1 ELSE 0 - 1
             hours == DigitsVal(SubSeq(offset_str, 2, 3)) * sign_factor
             minutes == DigitsVal(SubSeq(offset_str, 5, 6)) * sign_factor
         IN  DatetimeAdd(dt, (hours * 3600) + (minutes * 60))

\* [exc, val]: val is None or <<datetime>>
_offset_dt(dt, offset_str) ==
    IF ~_offset_pattern_match(offset_str) THEN [exc |-> "ValueError", val |-> None]
    ELSE LET sign_factor == IF offset_str[1] = "+" THEN 0 - 1 ELSE 1
             hours == DigitsVal(SubSeq(offset_str, 2, 3)) * sign_factor
             minutes == DigitsVal(SubSeq(offset_str, 5, 6)) * sign_factor
         IN  DatetimeAdd(dt, (hours * 3600) + (minutes * 60))

templates ==
    << <<"%Y", "-", "%m", "-", "%d", "T", "%H", ":", "%M", ":", "%S">>,
       <<"%Y", "-", "%m", "-", "%d">>,
       <<"%Y", "-", "%m">>,
       <<"%Y">> >>

\* the loop over the templates: every template is tried, the last one that
\* parses sets dt
RECURSIVE TryTemplates(_, _, _)
TryTemplates(parseable_part, tmpls, dt) ==
    IF tmpls = <<>> THEN dt
    ELSE LET r == Strptime(parseable_part, Head(tmpls))
         IN  TryTemplates(parseable_part, Tail(tmpls), IF r.ok THEN Some(r.dt) ELSE dt)

_parse_W3CDTF_to_datetime(w3cdtf_str) ==
    LET parseable_part == SubSeq(w3cdtf_str, 1, IF Len(w3cdtf_str) < 19 THEN Len(w3cdtf_str) ELSE 19)
        offset_str == SubSeq(w3cdtf_str, 20, Len(w3cdtf_str))
        dt == TryTemplates(parseable_part, templates, None)
    IN  IF dt = None THEN [exc |-> "ValueError", val |-> None]
        ELSE IF Len(offset_str) = 6 THEN _offset_dt(dt[1], offset_str)
        ELSE [exc |-> "none", val |-> dt]

\* [exc, val]: the exception the getter lets through, or the value returned
\* (None or <<datetime>>); slicing a missing text raises TypeError
__get_date_prop(elm, name) ==
    IF ~HasChild(elm, _date_tags[name]) THEN [exc |-> "none", val |-> None]
    ELSE LET datetime_str == Child(elm, _date_tags[name]).text
             r == _parse_W3CDTF_to_datetime(datetime_str[1])
         IN  IF datetime_str = None THEN [exc |-> "TypeError", val |-> None]
             ELSE IF r.exc = "ValueError" THEN [exc |-> "none", val |-> None]
             ELSE r

\* [exc, val]; int(None) raises TypeError
__get_revision(elm) ==
    IF ~HasChild(elm, "cp:revision") THEN [exc |-> "none", val |-> 0]
    ELSE LET revision_str == Child(elm, "cp:revision").text
             r == ParseInt(revision_str[1])
         IN  IF revision_str = None THEN [exc |-> "TypeError", val |-> 0]
             ELSE IF ~r.ok \/ r.val < 0 THEN [exc |-> "none", val |-> 0]
             ELSE [exc |-> "none", val |-> r.val]


DateNames == DOMAIN _date_tags
StrNames == DOMAIN _str_tags

NewCoreProperties ==
    /\ cp = None
    /\ cp' = Some(new_coreProperties)
    /\ nsets' = 0
    /\ call' = Call("new_coreProperties", "", <<>>)
    /\ exc' = "none"
    /\ UNCHANGED <<tbl, assigned, tc, shape, graphicFrame, ret, para>>

Text(tag, attrib, text) == El(tag, attrib, text, <<>>)

\* core.xml parts read with oxml_fromstring: one written by an application,
\* and one whose elements are empty
ParsedCoreProperties ==
    { El("cp:coreProperties", <<>>, None,
         << Text("dc:title", <<>>, Some(<<"o", "l", "d">>)),
            Text("dc:creator", <<>>, Some(<<"m", "e">>)),
            Text("cp:revision", <<>>, Some(<<"3">>)),
            Text("dcterms:created", <<Attr("xsi:type", W3CDTF_TYPE)>>,
                 Some(Strftime(Datetime(2001, 2, 3, 4, 5, 6, 0)))),
            Text("cp:lastPrinted", <<>>, Some(Strftime(Datetime(2001, 2, 3, 4, 5, 6, 0)))) >>),
      El("cp:coreProperties", <<>>, None,
         << Text("dc:title", <<>>, None),
            Text("cp:revision", <<>>, None),
            Text("dcterms:modified", <<Attr("xsi:type", W3CDTF_TYPE)>>, None) >>) }

FromstringCoreProperties ==
    /\ cp = None
    /\ \E doc \in ParsedCoreProperties :
        /\ cp' = Some(doc)
        /\ nsets' = 0
        /\ call' = Call("oxml_fromstring", "cp:coreProperties", <<>>)
        /\ exc' = "none"
        /\ UNCHANGED <<tbl, assigned, tc, shape, graphicFrame, ret, para>>

Rep(c, n) == [k \in 1..n |-> c]

StrInputs ==
    { PyStr(<<>>), PyStr(<<"a", "b">>), PyStr(Rep("a", MaxStrLen)), PyStr(Rep("a", MaxStrLen + 1)),
      PyUnicode(<<"U+00E9">>), PyInt(7) }

DateInputs ==
    { PyDatetime(Datetime(2003, 12, 31, 10, 14, 55, 0)),
      PyDatetime(Datetime(2004, 2, 9, 3, 4, 5, 250000)),
      PyDate(Datetime(2003, 12, 31, 0, 0, 0, 0)),
      PyStr(Strftime(Datetime(2003, 12, 31, 10, 14, 55, 0))) }

RevisionInputs ==
    { PyInt(1), PyInt(12), PyInt(0), PyInt(0 - 3), PyBool(TRUE), PyStr(<<"5">>),
      PyFloat(<<"2", ".", "5">>) }

\* CT_CoreProperties.__setattr__, by the kind of name
SetStrProp ==
    /\ cp # None /\ nsets < MaxSets
    /\ \E name \in StrNames, value \in StrInputs :
        LET r == __set_str_prop(cp[1], name, value)
        IN  /\ cp' = Some(r.elm)
            /\ exc' = r.exc
            /\ call' = Call("__set_str_prop", name, <<value>>)
    /\ nsets' = nsets + 1
    /\ UNCHANGED <<tbl, assigned, tc, shape, graphicFrame, ret, para>>

SetDateProp ==
    /\ cp # None /\ nsets < MaxSets
    /\ \E name \in DateNames, value \in DateInputs :
        LET r == __set_date_prop(cp[1], name, value)
        IN  /\ cp' = Some(r.elm)
            /\ exc' = r.exc
            /\ call' = Call("__set_date_prop", name, <<value>>)
    /\ nsets' = nsets + 1
    /\ UNCHANGED <<tbl, assigned, tc, shape, graphicFrame, ret, para>>

SetRevision ==
    /\ cp # None /\ nsets < MaxSets
    /\ \E value \in RevisionInputs :
        LET r == __set_revision(cp[1], value)
        IN  /\ cp' = Some(r.elm)
            /\ exc' = r.exc
            /\ call' = Call("__set_revision", "revision", <<value>>)
    /\ nsets' = nsets + 1
    /\ UNCHANGED <<tbl, assigned, tc, shape, graphicFrame, ret, para>>

InitCore == InitTbl

NextCore ==
    \/ NewCoreProperties
    \/ FromstringCoreProperties
    \/ SetStrProp
    \/ SetDateProp
    \/ SetRevision

SpecCore == InitCore /\ [][NextCore]_vars

\* The date texts a core.xml part may hold: every combination of the parts
\* below in the forms Y, Y-M, Y-M-D and Y-M-DTh:m:s<suffix>, well-formed or not.
YearTexts == {Pad(2003, 4), Pad(2004, 4)}
MonthTexts == {Pad(2, 2), Pad(12, 2), Pad(13, 2), NatStr(2)}
DayTexts == {Pad(1, 2), Pad(29, 2), Pad(31, 2), NatStr(5)}
TimeTexts ==
    { Pad(0, 2) \o <<":">> \o Pad(0, 2) \o <<":">> \o Pad(0, 2),
      Pad(10, 2) \o <<":">> \o Pad(14, 2) \o <<":">> \o Pad(55, 2),
      Pad(23, 2) \o <<":">> \o Pad(59, 2) \o <<":">> \o Pad(59, 2),
      Pad(24, 2) \o <<":">> \o Pad(0, 2) \o <<":">> \o Pad(0, 2),
      Pad(10, 2) \o <<":">> \o Pad(14, 2) \o <<":">> \o Pad(60, 2),
      NatStr(1) \o <<":">> \o NatStr(2) \o <<":">> \o NatStr(3) }
SuffixTexts ==
    { <<>>, <<"Z">>, <<"X">>,
      <<"-", "0", "8", ":", "0", "0">>, <<"+", "0", "8", ":", "0", "0">>,
      <<"+", "0", "5", ":", "3", "0">>, <<"+", "0", "8", ":", "0">>,
      <<"Z", "0", "8", ":", "0", "0">> }

DateTexts ==
    {<<>>, <<"a", "b", "c">>}
    \cup YearTexts
    \cup {y \o <<"-">> \o m : y \in YearTexts, m \in MonthTexts}
    \cup {y \o <<"-">> \o m \o <<"-">> \o d : y \in YearTexts, m \in MonthTexts, d \in DayTexts}
    \cup {y \o <<"-">> \o m \o <<"-">> \o d \o <<"T">> \o t \o x :
            y \in YearTexts, m \in MonthTexts, d \in DayTexts, t \in TimeTexts, x \in SuffixTexts}

\* a core.xml part with one date element, holding a text or none
FromstringDate ==
    /\ cp = None
    /\ \E name \in DateNames, text \in {Some(t) : t \in DateTexts} \cup {None} :
        /\ cp' = Some(El("cp:coreProperties", <<>>, None, <<Text(_date_tags[name], <<>>, text)>>))
        /\ nsets' = 0
        /\ call' = Call("oxml_fromstring", name, <<>>)
        /\ exc' = "none"
        /\ UNCHANGED <<tbl, assigned, tc, shape, graphicFrame, ret, para>>

NextW3CDTF == FromstringDate

SpecW3CDTF == InitCore /\ [][NextW3CDTF]_vars

\* ---- revision texts read from a core.xml part
RevisionChars == {"0", "1", "5", "7", "9", "-", "+", " ", "a", "."}

MaxRevLen == 2

RevisionTexts == UNION {[1..n -> RevisionChars] : n \in 0..MaxRevLen}

\* a part with no revision child, with <cp:revision/>, or with a revision text
RevisionDocs ==
    {El("cp:coreProperties", <<>>, None, <<>>),
     El("cp:coreProperties", <<>>, None, <<Text("cp:revision", <<>>, None)>>)}
    \cup {El("cp:coreProperties", <<>>, None, <<Text("cp:revision", <<>>, Some(t))>>) :
              t \in RevisionTexts}

FromstringRevision ==
    /\ cp = None
    /\ \E doc \in RevisionDocs :
        /\ cp' = Some(doc)
        /\ nsets' = 0
        /\ call' = Call("oxml_fromstring", "revision", <<>>)
        /\ exc' = "none"
        /\ UNCHANGED <<tbl, assigned, tc, shape, graphicFrame, ret, para>>

NextRevision == FromstringRevision

SpecRevision == InitCore /\ [][NextRevision]_vars

\* ------------------------------------------------- claims about CT_Table
RECURSIVE SeqSum(_)
SeqSum(s) == IF Len(s) = 0 THEN 0 ELSE s[1] + SeqSum(Tail(s))

\* the integers read back from attribute `name` of the children of elm with that tag
AttrInts(elm, tag, name) ==
    LET kids == SelectSeq(elm.children, LAMBDA c : c.tag = tag)
    IN  [k \in 1..Len(kids) |-> ParseInt(GetAttr(kids[k], name)[1]).val]

Returned(op) == call.op = op /\ exc = "none"

\* C1: whenever new_tbl returns a table, the w attributes of its gridCol
\* elements sum to the width passed in and the h attributes of its tr
\* elements sum to the height passed in, with one gridCol per column and one
\* tr per row.
C1_GridSumsExact ==
    Returned("new_tbl") =>
        /\ Len(AttrInts(Child(tbl[1], "a:tblGrid"), "a:gridCol", "w")) = call.args[2].i
        /\ Len(AttrInts(tbl[1], "a:tr", "h")) = call.args[1].i
        /\ SeqSum(AttrInts(Child(tbl[1], "a:tblGrid"), "a:gridCol", "w")) = call.args[3].i
        /\ SeqSum(AttrInts(tbl[1], "a:tr", "h")) = call.args[4].i

\* a table whose width and height do not divide evenly has been generated
C1_Witness ==
    /\ Returned("new_tbl")
    /\ call.args[2].i > 1 /\ call.args[3].i % call.args[2].i # 0
    /\ call.args[1].i > 1 /\ call.args[4].i % call.args[1].i # 0

\* C2 as stated: on a table fresh from new_tbl all six boolean properties
\* read false.
C2_AllFalseOnFreshTable ==
    Returned("new_tbl") => \A p \in BOOLPROPS : ~_get_boolean_property(tbl[1], p)

\* C2: on a table fresh from new_tbl, firstRow and bandRow read true (the
\* template writes them as "1") and bandCol, firstCol, lastCol and lastRow
\* read false.
C2_FreshTableDefaults ==
    Returned("new_tbl") =>
        \A p \in BOOLPROPS : _get_boolean_property(tbl[1], p) <=> p \in {"firstRow", "bandRow"}

C2_Witness == Returned("new_tbl") /\ tbl # None /\ has_tblPr(tbl[1])

\* C3: for every boolean property that has been assigned, the getter reads
\* true exactly when the last value assigned was truthy; after a truthy
\* assignment the attribute is stored as "1"; after a falsy one the tblPr
\* element carries no such attribute at all.
C3_LastAssignmentWins ==
    tbl # None =>
        \A p \in BOOLPROPS :
            /\ assigned[p] = "truthy" =>
                  /\ _get_boolean_property(tbl[1], p)
                  /\ has_tblPr(tbl[1])
                  /\ GetAttr(Child(tbl[1], "a:tblPr"), p) = Some(<<"1">>)
            /\ assigned[p] = "falsy" =>
                  /\ ~_get_boolean_property(tbl[1], p)
                  /\ has_tblPr(tbl[1]) => ~HasAttr(Child(tbl[1], "a:tblPr"), p)

\* one property was set true, another one that had an attribute was set
\* false, on the same table
C3_Witness ==
    /\ tbl # None
    /\ assigned["bandCol"] = "truthy"
    /\ assigned["firstRow"] = "falsy"
    /\ Returned("_set_boolean_property")
    /\ has_tblPr(tbl[1])
    /\ Len(Child(tbl[1], "a:tblPr").attrib) = 2

\* ---------------------------------------- claims about CT_CoreProperties
TooLong == "ValueError: exceeded 255 char max length"
NotDatetime == "ValueError: requires datetime"

Called(op) == call.op = op /\ cp # None

\* C4 as stated: for each of the eleven string properties, setting a string
\* of at most 255 characters succeeds and the getter then returns that
\* string, whatever the tree held before.
C4_StrSetGetRoundTrip ==
    (Called("__set_str_prop") /\ call.args[1].type \in {"str", "unicode"}
        /\ Len(call.args[1].s) <= 255) =>
            /\ exc = "none"
            /\ __get_str_prop(cp[1], call.name) = Some(call.args[1].s)

\* C5: a string-property set raises the too-long ValueError exactly when
\* str(value) exists and has more than 255 characters; a text of 256
\* characters is rejected and one of 255 characters is accepted.
C5_TooLongExactlyOver255 ==
    Called("__set_str_prop") =>
        /\ exc = TooLong <=>
              (PyStrOf(call.args[1]).exc = "none" /\ Len(PyStrOf(call.args[1]).s) > 255)
        /\ (call.args[1].type = "str" /\ Len(call.args[1].s) = 256) => exc = TooLong
        /\ (call.args[1].type = "str" /\ Len(call.args[1].s) = 255) =>
              exc = "none" /\ Len(__get_str_prop(cp[1], call.name)[1]) = 255

\* a 256-character value was rejected on a tree that already holds an
\* accepted 255-character value
C5_Witness ==
    /\ Called("__set_str_prop")
    /\ exc = TooLong
    /\ Len(call.args[1].s) = 256
    /\ \E name \in StrNames : __get_str_prop(cp[1], name) = Some(Rep("a", 255))

SetterOps == {"__set_str_prop", "__set_date_prop", "__set_revision"}

\* C6: a setter call that raises leaves the coreProperties tree exactly as
\* it was before the call.
C6_FailedSetLeavesTree ==
    [][(call'.op \in SetterOps /\ exc' # "none") => cp' = cp]_vars

\* a setter raised on a tree that holds children
C6_Witness ==
    /\ cp # None
    /\ call.op \in SetterOps
    /\ exc # "none"
    /\ Len(cp[1].children) > 0

\* ---- W3CDTF, stated without the parser
Num(s, a, b) == DigitsVal(SubSeq(s, a, b))

IsNum(s, a, b) == b <= Len(s) /\ AllDigits(SubSeq(s, a, b))

IsYear(s) == IsNum(s, 1, 4) /\ Num(s, 1, 4) >= 1

IsYearMonth(s) ==
    IsYear(s) /\ Len(s) >= 7 /\ s[5] = "-" /\ IsNum(s, 6, 7) /\ Num(s, 6, 7) \in 1..12

IsYearMonthDay(s) ==
    /\ IsYearMonth(s) /\ Len(s) >= 10 /\ s[8] = "-" /\ IsNum(s, 9, 10)
    /\ Num(s, 9, 10) \in 1..DaysInMonth(Num(s, 1, 4), Num(s, 6, 7))

IsDateTime(s) ==
    /\ IsYearMonthDay(s) /\ Len(s) >= 19 /\ s[11] = "T"
    /\ IsNum(s, 12, 13) /\ Num(s, 12, 13) <= 23 /\ s[14] = ":"
    /\ IsNum(s, 15, 16) /\ Num(s, 15, 16) <= 59 /\ s[17] = ":"
    /\ IsNum(s, 18, 19) /\ Num(s, 18, 19) <= 59

IsOffset(s) ==
    /\ Len(s) = 25 /\ s[20] \in {"+", "-"}
    /\ IsNum(s, 21, 22) /\ Num(s, 21, 22) <= 23 /\ s[23] = ":"
    /\ IsNum(s, 24, 25) /\ Num(s, 24, 25) <= 59

\* the five supported forms
IsW3CDTF(s) ==
    \/ Len(s) = 4 /\ IsYear(s)
    \/ Len(s) = 7 /\ IsYearMonth(s)
    \/ Len(s) = 10 /\ IsYearMonthDay(s)
    \/ Len(s) = 20 /\ IsDateTime(s) /\ s[20] = "Z"
    \/ IsDateTime(s) /\ IsOffset(s)

\* seconds since 1970-01-01 of a timestamp (days from the civil date)
EpochSeconds(y, m, d, H, M, S) ==
    LET yy == IF m <= 2 THEN y - 1 ELSE y
        era == yy \div 400
        yoe == yy - (era * 400)
        doy == (((153 * (IF m > 2 THEN m - 3 ELSE m + 9)) + 2) \div 5) + d - 1
        doe == (yoe * 365) + (yoe \div 4) - (yoe \div 100) + doy
    IN  ((((era * 146097) + doe) - 719468) * 86400) + (H * 3600) + (M * 60) + S

EpochOf(dt) == EpochSeconds(dt.year, dt.month, dt.day, dt.hour, dt.minute, dt.second)

IsTimestamp(dt) ==
    /\ dt.year \in 1..9999 /\ dt.month \in 1..12
    /\ dt.day \in 1..DaysInMonth(dt.year, dt.month)
    /\ dt.hour \in 0..23 /\ dt.minute \in 0..59 /\ dt.second \in 0..59
    /\ dt.microsecond = 0

\* what the text denotes: its fields, missing ones at their minimum, a
\* +HH:MM offset subtracted and a -HH:MM offset added
Denoted(s) ==
    LET fields == EpochSeconds(Num(s, 1, 4),
                               IF Len(s) >= 7 THEN Num(s, 6, 7) ELSE 1,
                               IF Len(s) >= 10 THEN Num(s, 9, 10) ELSE 1,
                               IF Len(s) >= 19 THEN Num(s, 12, 13) ELSE 0,
                               IF Len(s) >= 19 THEN Num(s, 15, 16) ELSE 0,
                               IF Len(s) >= 19 THEN Num(s, 18, 19) ELSE 0)
        offset == IF Len(s) = 25 THEN (Num(s, 21, 22) * 3600) + (Num(s, 24, 25) * 60) ELSE 0
    IN  IF Len(s) = 25 /\ s[20] = "+" THEN fields - offset ELSE fields + offset

DateText(name) == Child(cp[1], _date_tags[name]).text

HasDate(name) == cp # None /\ HasChild(cp[1], _date_tags[name])

ExampleText == Pad(2003, 4) \o <<"-">> \o Pad(12, 2) \o <<"-">> \o Pad(31, 2) \o <<"T">>
               \o Pad(10, 2) \o <<":">> \o Pad(14, 2) \o <<":">> \o Pad(55, 2)
               \o <<"-", "0", "8", ":", "0", "0">>

\* C7: for a stored text in one of the five supported forms the date getter
\* returns the timestamp the text denotes (fields, missing ones at their
\* minimum, +HH:MM subtracted, -HH:MM added); 2003-12-31T10:14:55-08:00
\* reads as 2003-12-31 18:14:55.
C7_SupportedFormsParse ==
    \A name \in DateNames :
        (HasDate(name) /\ DateText(name) # None /\ IsW3CDTF(DateText(name)[1])) =>
            LET r == __get_date_prop(cp[1], name)
            IN  /\ r.exc = "none"
                /\ r.val # None
                /\ IsTimestamp(r.val[1])
                /\ EpochOf(r.val[1]) = Denoted(DateText(name)[1])
                /\ DateText(name)[1] = ExampleText =>
                      r.val[1] = Datetime(2003, 12, 31, 18, 14, 55, 0)

\* the example text is stored and reads as 18:14:55
C7_Witness ==
    \E name \in DateNames :
        /\ HasDate(name)
        /\ DateText(name) = Some(ExampleText)
        /\ __get_date_prop(cp[1], name).val = Some(Datetime(2003, 12, 31, 18, 14, 55, 0))

\* C8 as stated: for a stored date element whose text is in none of the
\* supported forms (no text at all included) the getter raises nothing and
\* returns None.
C8_UnsupportedReadsNone ==
    \A name \in DateNames :
        (HasDate(name) /\ (DateText(name) = None \/ ~IsW3CDTF(DateText(name)[1]))) =>
            __get_date_prop(cp[1], name) = [exc |-> "none", val |-> None]

C10_RevisionSetGet ==
    Called("__set_revision") =>
        IF call.args[1].type = "int" /\ call.args[1].i >= 1
        THEN exc = "none" /\ __get_revision(cp[1]) = [exc |-> "none", val |-> call.args[1].i]
        ELSE exc # "none"

\* ---- revision getter
\* the text t writes the integer n in decimal: optional blanks around an
\* optional sign and one or more digits
DenotesInt(t, n) ==
    \E a \in 1..Len(t), b \in 1..Len(t) :
        /\ a <= b
        /\ \A i \in 1..Len(t) : (i < a \/ i > b) => t[i] = " "
        /\ LET body == SubSeq(t, a, b)
               digits == IF body[1] \in {"+", "-"} THEN Tail(body) ELSE body
           IN  /\ AllDigits(digits)
               /\ n = IF body[1] = "-" THEN 0 - DigitsVal(digits) ELSE DigitsVal(digits)

RevisionRead == call.op = "oxml_fromstring" /\ call.name = "revision" /\ cp # None

\* C11 as stated: the revision getter never raises; it returns 0 when the
\* revision child is absent, has no text, holds text that is not a decimal
\* integer, or holds a negative integer, and the stored integer otherwise.
C11_RevisionGetNeverRaises ==
    RevisionRead =>
        LET r == __get_revision(cp[1])
            stored == IF HasChild(cp[1], "cp:revision")
                      THEN Child(cp[1], "cp:revision").text ELSE None
            Known == 0..1000
        IN  /\ r.exc = "none"
            /\ r.val = IF stored # None /\ \E n \in Known : DenotesInt(stored[1], n)
                        THEN CHOOSE n \in Known : DenotesInt(stored[1], n)
                        ELSE 0

\* ------------------------------------------------------------ table cell
\* elm.insert(idx, c), idx counted from 0
InsertAt(elm, idx, c) ==
    [elm EXCEPT !.children = SubSeq(@, 1, idx) \o <<c>> \o SubSeq(@, idx + 1, Len(@))]

\* elm.remove(elm.<tag>): the first child with that tag goes
RemoveChild(elm, tag) ==
    LET k == ChildIdx(elm, tag)
    IN  [elm EXCEPT !.children = SubSeq(@, 1, k - 1) \o SubSeq(@, k + 1, Len(@))]

\* CT_TableCell.anchor
anchor(elm) ==
    IF ~HasChild(elm, "a:tcPr") THEN None
    ELSE GetAttr(Child(elm, "a:tcPr"), "anchor")

\* a cell without the pruning step of the clear methods
ClearNoPrune(elm, name) ==
    IF ~HasChild(elm, "a:tcPr") THEN elm
    ELSE IF HasAttr(Child(elm, "a:tcPr"), name)
         THEN ReplaceChild(elm, "a:tcPr", DelAttr(Child(elm, "a:tcPr"), name))
         ELSE elm

\* a clear that removes the whole block, whatever else it holds
ClearMarXDropsBlock(elm, marX) ==
    IF ~HasChild(elm, "a:tcPr") THEN elm ELSE RemoveChild(elm, "a:tcPr")

\* CT_TableCell.__clear_marX
__clear_marX(elm, marX) ==
    IF ~HasChild(elm, "a:tcPr") THEN elm
    ELSE LET tcPr == Child(elm, "a:tcPr")
             cleared == IF HasAttr(tcPr, marX) THEN DelAttr(tcPr, marX) ELSE tcPr
         IN  IF Len(cleared.attrib) = 0 THEN RemoveChild(elm, "a:tcPr")
             ELSE ReplaceChild(elm, "a:tcPr", cleared)

\* an anchor clear that leaves the emptied block in place
ClearAnchorNoPrune(elm) ==
    IF ~HasChild(elm, "a:tcPr") THEN elm
    ELSE IF HasAttr(Child(elm, "a:tcPr"), "anchor")
         THEN ReplaceChild(elm, "a:tcPr", DelAttr(Child(elm, "a:tcPr"), "anchor"))
         ELSE elm

\* CT_TableCell._clear_anchor
_clear_anchor(elm) ==
    IF ~HasChild(elm, "a:tcPr") THEN elm
    ELSE LET tcPr == Child(elm, "a:tcPr")
             cleared == IF HasAttr(tcPr, "anchor") THEN DelAttr(tcPr, "anchor") ELSE tcPr
         IN  IF Len(cleared.attrib) = 0 THEN RemoveChild(elm, "a:tcPr")
             ELSE ReplaceChild(elm, "a:tcPr", cleared)

\* a block that is always appended as the last child
WithTcPrAppended(elm) ==
    IF HasChild(elm, "a:tcPr") THEN elm
    ELSE AppendChild(elm, El("a:tcPr", <<>>, None, <<>>))

\* the lazily created <a:tcPr>: after <a:txBody> when there is one, else first
WithTcPr(elm) ==
    IF HasChild(elm, "a:tcPr") THEN elm
    ELSE InsertAt(elm, IF HasChild(elm, "a:txBody") THEN 1 ELSE 0,
                  El("a:tcPr", <<>>, None, <<>>))

\* CT_TableCell._set_anchor
_set_anchor(elm, value) ==
    IF value.type = "NoneType" THEN _clear_anchor(elm)
    ELSE LET e == WithTcPr(elm)
         IN  ReplaceChild(e, "a:tcPr", SetAttr(Child(e, "a:tcPr"), "anchor", value.s))

\* a margin setter that stores nothing for the margin's own default value
SetMarXSkipsDefault(elm, marX, value) ==
    IF value.type = "NoneType" THEN __clear_marX(elm, marX)
    ELSE IF value.i = (IF marX \in {"marT", "marB"} THEN 45720 ELSE 91440) THEN elm
    ELSE LET e == WithTcPr(elm)
         IN  ReplaceChild(e, "a:tcPr", SetAttr(Child(e, "a:tcPr"), marX, PyStrOf(value).s))

\* CT_TableCell._set_marX
_set_marX(elm, marX, value) ==
    IF value.type = "NoneType" THEN __clear_marX(elm, marX)
    ELSE LET e == WithTcPr(elm)
         IN  ReplaceChild(e, "a:tcPr", SetAttr(Child(e, "a:tcPr"), marX, PyStrOf(value).s))

\* CT_TableCell.__get_marX
__get_marX(elm, attr_name, default) ==
    IF ~HasChild(elm, "a:tcPr") THEN [exc |-> "none", val |-> default]
    ELSE LET a == GetAttr(Child(elm, "a:tcPr"), attr_name)
             r == ParseInt(a[1])
         IN  IF a = None THEN [exc |-> "none", val |-> default]
             ELSE IF r.ok THEN [exc |-> "none", val |-> r.val]
             ELSE [exc |-> "ValueError", val |-> 0]

marT(elm) == __get_marX(elm, "marT", 45720)
marR(elm) == __get_marX(elm, "marR", 91440)
marB(elm) == __get_marX(elm, "marB", 45720)
marL(elm) == __get_marX(elm, "marL", 91440)

MarNames == {"marT", "marR", "marB", "marL"}

NewTc ==
    /\ tc = None
    /\ tc' = Some(new_tc)
    /\ nsets' = 0
    /\ call' = Call("new_tc", "", <<>>)
    /\ exc' = "none"
    /\ UNCHANGED <<tbl, assigned, cp, shape, graphicFrame, ret, para>>

\* cells read from a slide part: with margins and anchor set, with no
\* <a:tcPr> (with and without <a:extLst>), and with neither <a:txBody> nor
\* <a:tcPr> (with and without <a:extLst>)
ParsedCells ==
    { [new_tc EXCEPT !.children[2].attrib =
            <<Attr("marL", IntStr(0)), Attr("anchor", <<"c", "t", "r">>)>>],
      NewTcNoTcPr,
      AppendChild(NewTcNoTcPr, El("a:extLst", <<>>, None, <<>>)),
      El("a:tc", <<>>, None, <<El("a:extLst", <<>>, None, <<>>)>>),
      El("a:tc", <<>>, None, <<>>) }

FromstringTc ==
    /\ tc = None
    /\ \E cell \in ParsedCells :
        /\ tc' = Some(cell)
        /\ nsets' = 0
        /\ call' = Call("oxml_fromstring", "a:tc", <<>>)
        /\ exc' = "none"
        /\ UNCHANGED <<tbl, assigned, cp, shape, graphicFrame, ret, para>>

MarInputs == {PyNone, PyInt(0), PyInt(45720), PyInt(91440)}

AnchorInputs == {PyNone, PyStr(<<"c", "t", "r">>), PyStr(<<"b">>)}

\* CT_TableCell.__setattr__ for a margin
SetMarX ==
    /\ tc # None /\ nsets < MaxSets
    /\ \E marX \in MarNames, value \in MarInputs :
        /\ tc' = Some(_set_marX(tc[1], marX, value))
        /\ call' = Call("_set_marX", marX, <<value>>)
    /\ nsets' = nsets + 1
    /\ exc' = "none"
    /\ UNCHANGED <<tbl, assigned, cp, shape, graphicFrame, ret, para>>

\* CT_TableCell.__setattr__ for the anchor
SetAnchor ==
    /\ tc # None /\ nsets < MaxSets
    /\ \E value \in AnchorInputs :
        /\ tc' = Some(_set_anchor(tc[1], value))
        /\ call' = Call("_set_anchor", "anchor", <<value>>)
    /\ nsets' = nsets + 1
    /\ exc' = "none"
    /\ UNCHANGED <<tbl, assigned, cp, shape, graphicFrame, ret, para>>

NextCell == NewTc \/ FromstringTc \/ SetMarX \/ SetAnchor

SpecCell == InitCore /\ [][NextCell]_vars

\* C12 as stated: a cell fresh from new_tc has no <a:tcPr> child at all
\* and reads marT = marB = 45720 and marL = marR = 91440.
C12_FreshCellHasNoBlock ==
    (Returned("new_tc") /\ tc # None) =>
        /\ ~HasChild(tc[1], "a:tcPr")
        /\ <<marT(tc[1]).val, marB(tc[1]).val>> = <<45720, 45720>>
        /\ <<marL(tc[1]).val, marR(tc[1]).val>> = <<91440, 91440>>

\* C12 as the code has it: a cell fresh from new_tc holds an <a:tcPr>
\* child with no attributes, right after <a:txBody>, and reads
\* marT = marB = 45720 and marL = marR = 91440 without error.
C12_FreshCellDefaults ==
    (Returned("new_tc") /\ tc # None) =>
        /\ Len(tc[1].children) = 2
        /\ tc[1].children[1].tag = "a:txBody"
        /\ tc[1].children[2] = El("a:tcPr", <<>>, None, <<>>)
        /\ \A m \in {"marT", "marB"} :
              __get_marX(tc[1], m, 45720) = [exc |-> "none", val |-> 45720]
        /\ \A m \in {"marL", "marR"} :
              __get_marX(tc[1], m, 91440) = [exc |-> "none", val |-> 91440]

\* a cell came out of new_tc
C12_Witness == Returned("new_tc") /\ tc # None /\ anchor(tc[1]) = None

Cleared == call.op \in {"_set_marX", "_set_anchor"} /\ call.args[1] = PyNone

\* the attributes of e other than name, in order
AttribWithout(e, name) == SelectSeq(e.attrib, LAMBDA a : a.name # name)

\* the children of e other than those tagged tag, in order
ChildrenWithout(e, tag) == SelectSeq(e.children, LAMBDA c : c.tag # tag)

\* C13: assigning None to a margin or to the anchor removes that
\* attribute; the <a:tcPr> block goes exactly when no attribute remains on
\* it, stays with its other attributes when any remain, and a cell with no
\* block is left as it was.  Nothing else of the cell changes.
C13_ClearPrunes ==
    [][(call'.op \in {"_set_marX", "_set_anchor"} /\ call'.args[1] = PyNone) =>
          LET before == tc[1]
              after == tc'[1]
              rest == AttribWithout(Child(before, "a:tcPr"), call'.name)
          IN  IF ~HasChild(before, "a:tcPr") THEN after = before
              ELSE /\ ChildrenWithout(after, "a:tcPr") = ChildrenWithout(before, "a:tcPr")
                   /\ after.attrib = before.attrib
                   /\ HasChild(after, "a:tcPr") <=> rest # <<>>
                   /\ rest # <<>> =>
                         /\ Child(after, "a:tcPr").attrib = rest
                         /\ ChildIdx(after, "a:tcPr") = ChildIdx(before, "a:tcPr")]_vars

\* a margin was cleared and the block stayed, still holding another attribute
C13_Witness ==
    /\ Cleared /\ tc # None
    /\ HasChild(tc[1], "a:tcPr")
    /\ ~HasAttr(Child(tc[1], "a:tcPr"), call.name)
    /\ Len(Child(tc[1], "a:tcPr").attrib) > 0

\* ------------------------------------------------------------------ shape
\* placeholder constants imported from pptx.spec
PH_TYPE_TITLE == <<"title">>
PH_TYPE_CTRTITLE == <<"ctrTitle">>
PH_TYPE_SUBTITLE == <<"subTitle">>
PH_TYPE_BODY == <<"body">>
PH_TYPE_OBJ == <<"obj">>
PH_ORIENT_HORZ == <<"horz">>
PH_SZ_FULL == <<"full">>

Leaf(tag, attrib) == El(tag, attrib, None, <<>>)

\* <p:nvSpPr> of the three shape templates
nvSpPr(id_, name, cNvSpPrAttrib) ==
    El("p:nvSpPr", <<>>, None,
       << Leaf("p:cNvPr", <<Attr("id", IntStr(id_)), Attr("name", name)>>),
          Leaf("p:cNvSpPr", cNvSpPrAttrib),
          Leaf("p:nvPr", <<>>) >>)

xfrm(left, top, width, height) ==
    El("a:xfrm", <<>>, None,
       << Leaf("a:off", <<Attr("x", IntStr(left)), Attr("y", IntStr(top))>>),
          Leaf("a:ext", <<Attr("cx", IntStr(width)), Attr("cy", IntStr(height))>>) >>)

prstGeomEl(prst) ==
    El("a:prstGeom", <<Attr("prst", prst)>>, None, <<Leaf("a:avLst", <<>>)>>)

StyleRef(tag, idx, clr) ==
    El(tag, <<Attr("idx", idx)>>, None, <<Leaf("a:schemeClr", <<Attr("val", clr)>>)>>)

\* CT_Shape._autoshape_sp_tmpl, filled in
_autoshape_sp_tmpl(id_, name, left, top, width, height, prst) ==
    El("p:sp", <<>>, None,
       << nvSpPr(id_, name, <<>>),
          El("p:spPr", <<>>, None, <<xfrm(left, top, width, height), prstGeomEl(prst)>>),
          El("p:style", <<>>, None,
             << StyleRef("a:lnRef", <<"1">>, <<"accent1">>),
                StyleRef("a:fillRef", <<"3">>, <<"accent1">>),
                StyleRef("a:effectRef", <<"2">>, <<"accent1">>),
                StyleRef("a:fontRef", <<"minor">>, <<"lt1">>) >>),
          El("p:txBody", <<>>, None,
             << Leaf("a:bodyPr", <<Attr("rtlCol", <<"0">>), Attr("anchor", <<"ctr">>)>>),
                Leaf("a:lstStyle", <<>>),
                El("a:p", <<>>, None, <<Leaf("a:pPr", <<Attr("algn", <<"ctr">>)>>)>>) >>) >>)

\* CT_Shape._ph_sp_tmpl, filled in
_ph_sp_tmpl(id_, name) ==
    El("p:sp", <<>>, None, <<nvSpPr(id_, name, <<>>), Leaf("p:spPr", <<>>)>>)

\* CT_Shape._textbox_sp_tmpl, filled in
_textbox_sp_tmpl(id_, name, left, top, width, height) ==
    El("p:sp", <<>>, None,
       << nvSpPr(id_, name, <<Attr("txBox", <<"1">>)>>),
          El("p:spPr", <<>>, None,
             << xfrm(left, top, width, height), prstGeomEl(<<"rect">>), Leaf("a:noFill", <<>>) >>),
          El("p:txBody", <<>>, None,
             << El("a:bodyPr", <<Attr("wrap", <<"none">>)>>, None, <<Leaf("a:spAutoFit", <<>>)>>),
                Leaf("a:lstStyle", <<>>),
                Leaf("a:p", <<>>) >>) >>)

\* CT_TextBody.new_txBody
new_txBody ==
    El("p:txBody", <<>>, None,
       <<Leaf("a:bodyPr", <<>>), Leaf("a:lstStyle", <<>>), Leaf("a:p", <<>>)>>)

\* _child(element, child_tagname): <<>> or <<child>>
_child(element, child_tagname) ==
    IF HasChild(element, child_tagname) THEN Some(Child(element, child_tagname)) ELSE None

txBox(s) == GetAttr(Child(Child(s, "p:nvSpPr"), "p:cNvSpPr"), "txBox")

\* a reading of is_autoshape that forgets the text-box flag
IsAutoshapeIgnoresTxBox(s) == _child(Child(s, "p:spPr"), "a:prstGeom") # None

\* CT_Shape.is_autoshape
is_autoshape(s) ==
    IF _child(Child(s, "p:spPr"), "a:prstGeom") = None THEN FALSE
    ELSE IF txBox(s) \in {Some(<<"true">>), Some(<<"1">>)} THEN FALSE
    ELSE TRUE

\* CT_Shape.is_textbox
is_textbox(s) == IF txBox(s) \in {Some(<<"true">>), Some(<<"1">>)} THEN TRUE ELSE FALSE

\* CT_Shape.new_autoshape_sp
new_autoshape_sp(id_, name, prst, left, top, width, height) ==
    _autoshape_sp_tmpl(id_, name, left, top, width, height, prst)

\* CT_Shape.new_textbox_sp
new_textbox_sp(id_, name, left, top, width, height) ==
    _textbox_sp_tmpl(id_, name, left, top, width, height)

\* ph.set(name, value) when the condition holds
SetIf(cond, elm, name, value) == IF cond THEN SetAttr(elm, name, value) ELSE elm

placeholder_types_that_have_a_text_frame ==
    {PH_TYPE_TITLE, PH_TYPE_CTRTITLE, PH_TYPE_SUBTITLE, PH_TYPE_BODY, PH_TYPE_OBJ}

\* a factory that writes idx even when it is zero
NewPlaceholderSpAlwaysIdx(id_, name, ph_type, orient, sz, idx) ==
    LET ph == SetAttr(SetIf(sz # PH_SZ_FULL,
                  SetIf(orient # PH_ORIENT_HORZ,
                     SetIf(ph_type # PH_TYPE_OBJ, Leaf("p:ph", <<>>), "type", ph_type),
                     "orient", orient), "sz", sz), "idx", IntStr(idx))
        sp0 == _ph_sp_tmpl(id_, name)
        sp1 == [sp0 EXCEPT !.children[1].children[3].children = <<ph>>]
    IN  IF ph_type \in placeholder_types_that_have_a_text_frame
        THEN AppendChild(sp1, new_txBody) ELSE sp1

\* a factory that gives every placeholder a text body
NewPlaceholderSpAlwaysTxBody(id_, name, ph_type, orient, sz, idx) ==
    LET ph == SetIf(idx # 0, SetIf(sz # PH_SZ_FULL,
                  SetIf(orient # PH_ORIENT_HORZ,
                     SetIf(ph_type # PH_TYPE_OBJ, Leaf("p:ph", <<>>), "type", ph_type),
                     "orient", orient), "sz", sz), "idx", IntStr(idx))
        sp0 == _ph_sp_tmpl(id_, name)
        sp1 == [sp0 EXCEPT !.children[1].children[3].children = <<ph>>]
    IN  AppendChild(sp1, new_txBody)

\* CT_Shape.new_placeholder_sp
new_placeholder_sp(id_, name, ph_type, orient, sz, idx) ==
    LET sp0 == _ph_sp_tmpl(id_, name)
        nv == Child(sp0, "p:nvSpPr")
        \* placeholder shapes get a "no group" lock
        spLocks == SetAttr(Leaf("a:spLocks", <<>>), "noGrp", <<"1">>)
        cNvSpPr == AppendChild(Child(nv, "p:cNvSpPr"), spLocks)
        ph1 == SetIf(ph_type # PH_TYPE_OBJ, Leaf("p:ph", <<>>), "type", ph_type)
        ph2 == SetIf(orient # PH_ORIENT_HORZ, ph1, "orient", orient)
        ph3 == SetIf(sz # PH_SZ_FULL, ph2, "sz", sz)
        ph == SetIf(idx # 0, ph3, "idx", IntStr(idx))
        nvPr == AppendChild(Child(nv, "p:nvPr"), ph)
        nv1 == ReplaceChild(ReplaceChild(nv, "p:cNvSpPr", cNvSpPr), "p:nvPr", nvPr)
        sp1 == ReplaceChild(sp0, "p:nvSpPr", nv1)
    IN  IF ph_type \in placeholder_types_that_have_a_text_frame
        THEN AppendChild(sp1, new_txBody)
        ELSE sp1

MaxIdx == 2
MaxId == 2

PhTypes ==
    placeholder_types_that_have_a_text_frame
        \cup {<<"pic">>, <<"tbl">>, <<"chart">>, <<"dt">>, <<"sldNum">>}
PhOrients == {PH_ORIENT_HORZ, <<"vert">>}
PhSizes == {PH_SZ_FULL, <<"half">>, <<"quarter">>}
ShapeNames == {<<"Title 1">>}
Prsts == {<<"rect">>, <<"chevron">>}
Emus == {0, MaxEmu}

NewPlaceholderSp ==
    /\ shape = None
    /\ \E id_ \in 1..MaxId, name \in ShapeNames, ph_type \in PhTypes, orient \in PhOrients,
          sz \in PhSizes, idx \in 0..MaxIdx :
        /\ shape' = Some(new_placeholder_sp(id_, name, ph_type, orient, sz, idx))
        /\ call' = Call("new_placeholder_sp", "",
                        <<PyInt(id_), PyStr(name), PyStr(ph_type), PyStr(orient), PyStr(sz),
                          PyInt(idx)>>)
    /\ exc' = "none"
    /\ UNCHANGED <<tbl, assigned, cp, nsets, tc, graphicFrame, ret, para>>

NewAutoshapeSp ==
    /\ shape = None
    /\ \E id_ \in 1..MaxId, name \in ShapeNames, prst \in Prsts, left \in Emus, top \in Emus,
          width \in Emus, height \in Emus :
        /\ shape' = Some(new_autoshape_sp(id_, name, prst, left, top, width, height))
        /\ call' = Call("new_autoshape_sp", "",
                        <<PyInt(id_), PyStr(name), PyStr(prst), PyInt(left), PyInt(top),
                          PyInt(width), PyInt(height)>>)
    /\ exc' = "none"
    /\ UNCHANGED <<tbl, assigned, cp, nsets, tc, graphicFrame, ret, para>>

NewTextboxSp ==
    /\ shape = None
    /\ \E id_ \in 1..MaxId, name \in ShapeNames, left \in Emus, top \in Emus,
          width \in Emus, height \in Emus :
        /\ shape' = Some(new_textbox_sp(id_, name, left, top, width, height))
        /\ call' = Call("new_textbox_sp", "",
                        <<PyInt(id_), PyStr(name), PyInt(left), PyInt(top), PyInt(width),
                          PyInt(height)>>)
    /\ exc' = "none"
    /\ UNCHANGED <<tbl, assigned, cp, nsets, tc, graphicFrame, ret, para>>

\* shapes read from a slide part: every spelling of the txBox attribute,
\* with a preset geometry, a custom geometry or an empty <p:spPr>
ParsedShapes ==
    { El("p:sp", <<>>, None, <<nvSpPr(2, <<"Shape 1">>, a), El("p:spPr", <<>>, None, g)>>) :
        a \in {<<>>} \cup {<<Attr("txBox", <<v>>)>> : v \in {"1", "true", "0", "false"}},
        g \in {<<>>, <<prstGeomEl(<<"rect">>)>>, <<Leaf("a:custGeom", <<>>)>>,
               <<xfrm(0, 0, 1, 1), prstGeomEl(<<"rect">>)>>} }

FromstringSp ==
    /\ shape = None
    /\ \E s \in ParsedShapes :
        /\ shape' = Some(s)
        /\ call' = Call("oxml_fromstring", "p:sp", <<>>)
    /\ exc' = "none"
    /\ UNCHANGED <<tbl, assigned, cp, nsets, tc, graphicFrame, ret, para>>

NextShape == NewPlaceholderSp \/ NewAutoshapeSp \/ NewTextboxSp \/ FromstringSp

SpecShape == InitCore /\ [][NextShape]_vars

\* the <p:ph> element of the shape built last
PhOf(s) == Child(Child(Child(s, "p:nvSpPr"), "p:nvPr"), "p:ph")

PlaceholderBuilt == Returned("new_placeholder_sp") /\ shape # None

\* C14: new_placeholder_sp writes type on <p:ph> exactly when the type
\* given is not the object type, orient exactly when it is not horizontal,
\* sz exactly when it is not full, idx exactly when it is not zero, each
\* with the value given, and no other attribute.
C14_PhAttributes ==
    PlaceholderBuilt =>
        LET ph == PhOf(shape[1])
            ph_type == call.args[3].s
            orient == call.args[4].s
            sz == call.args[5].s
            idx == call.args[6].i
        IN  /\ GetAttr(ph, "type") = IF ph_type = <<"obj">> THEN None ELSE Some(ph_type)
            /\ GetAttr(ph, "orient") = IF orient = <<"horz">> THEN None ELSE Some(orient)
            /\ GetAttr(ph, "sz") = IF sz = <<"full">> THEN None ELSE Some(sz)
            /\ HasAttr(ph, "idx") <=> idx # 0
            /\ HasAttr(ph, "idx") => ParseInt(GetAttr(ph, "idx")[1]) = [ok |-> TRUE, val |-> idx]
            /\ \A i \in 1..Len(ph.attrib) : ph.attrib[i].name \in {"type", "orient", "sz", "idx"}

\* a placeholder built with the default type and index and a vertical orientation
C14_Witness ==
    /\ PlaceholderBuilt
    /\ call.args[3].s = <<"obj">> /\ call.args[6].i = 0 /\ call.args[4].s = <<"vert">>
    /\ PhOf(shape[1]).attrib = <<Attr("orient", <<"vert">>)>>

\* C15: new_placeholder_sp appends one <p:txBody>, as the last child,
\* exactly when the type is title, ctrTitle, subTitle, body or obj.
C15_TxBodyForTextTypes ==
    PlaceholderBuilt =>
        LET s == shape[1]
            n == Cardinality({i \in 1..Len(s.children) : s.children[i].tag = "p:txBody"})
        IN  IF call.args[3].s \in {<<"title">>, <<"ctrTitle">>, <<"subTitle">>, <<"body">>, <<"obj">>}
            THEN n = 1 /\ s.children[Len(s.children)].tag = "p:txBody"
            ELSE n = 0

\* a picture placeholder was built, without a text body
C15_Witness ==
    /\ PlaceholderBuilt
    /\ call.args[3].s = <<"pic">>
    /\ ~HasChild(shape[1], "p:txBody")

\* the text-box flag: txBox on <p:cNvSpPr> spelled 1 or true
FlagSet(s) ==
    \E i \in 1..Len(s.children[1].children[2].attrib) :
        /\ s.children[1].children[2].attrib[i].name = "txBox"
        /\ s.children[1].children[2].attrib[i].value \in {<<"1">>, <<"true">>}

HasPrstGeom(s) ==
    \E i \in 1..Len(s.children) :
        /\ s.children[i].tag = "p:spPr"
        /\ \E j \in 1..Len(s.children[i].children) :
              s.children[i].children[j].tag = "a:prstGeom"

\* C16: is_autoshape is true exactly when the shape has a preset geometry
\* and its text-box flag is not set, is_textbox exactly when the flag is
\* set, never both; new_autoshape_sp gives an auto shape that is no text
\* box, new_textbox_sp a text box that is no auto shape, and
\* new_placeholder_sp a shape that is neither.
C16_ShapeKinds ==
    shape # None =>
        LET s == shape[1]
        IN  /\ is_autoshape(s) <=> (HasPrstGeom(s) /\ ~FlagSet(s))
            /\ is_textbox(s) <=> FlagSet(s)
            /\ ~(is_autoshape(s) /\ is_textbox(s))
            /\ call.op = "new_autoshape_sp" => (is_autoshape(s) /\ ~is_textbox(s))
            /\ call.op = "new_textbox_sp" => (is_textbox(s) /\ ~is_autoshape(s))
            /\ call.op = "new_placeholder_sp" => (~is_autoshape(s) /\ ~is_textbox(s))

\* a text box came out of new_textbox_sp: preset geometry and the flag set
C16_Witness ==
    /\ Returned("new_textbox_sp") /\ shape # None
    /\ HasPrstGeom(shape[1]) /\ FlagSet(shape[1])

\* ---------------------------------------------------------- graphic frame
DATATYPE_TABLE == <<"http://schemas.openxmlformats.org/drawingml/2006/table">>
DATATYPE_CHART == <<"http://schemas.openxmlformats.org/drawingml/2006/chart">>

\* CT_GraphicalObjectFrame._graphicFrame_tmpl, filled in
_graphicFrame_tmpl(id_, name, left, top, width, height) ==
    El("p:graphicFrame", <<>>, None,
       << El("p:nvGraphicFramePr", <<>>, None,
             << Leaf("p:cNvPr", <<Attr("id", IntStr(id_)), Attr("name", name)>>),
                El("p:cNvGraphicFramePr", <<>>, None,
                   <<Leaf("a:graphicFrameLocks", <<Attr("noGrp", <<"1">>)>>)>>),
                Leaf("p:nvPr", <<>>) >>),
          El("p:xfrm", <<>>, None,
             << Leaf("a:off", <<Attr("x", IntStr(left)), Attr("y", IntStr(top))>>),
                Leaf("a:ext", <<Attr("cx", IntStr(width)), Attr("cy", IntStr(height))>>) >>),
          El("a:graphic", <<>>, None, <<Leaf("a:graphicData", <<>>)>>) >>)

\* self[qn('a:graphic')].graphicData
graphicDataOf(frame) == Child(Child(frame, "a:graphic"), "a:graphicData")

\* the frame with its <a:graphicData> replaced
WithGraphicData(frame, gd) ==
    ReplaceChild(frame, "a:graphic",
                 ReplaceChild(Child(frame, "a:graphic"), "a:graphicData", gd))

\* CT_GraphicalObjectFrame.has_table
has_table(frame) ==
    IF GetAttr(graphicDataOf(frame), "uri") = Some(DATATYPE_TABLE) THEN TRUE ELSE FALSE

\* CT_GraphicalObjectFrame.new_graphicFrame
new_graphicFrame(id_, name, left, top, width, height) ==
    _graphicFrame_tmpl(id_, name, left, top, width, height)

\* CT_GraphicalObjectFrame.new_table
new_table(id_, name, rows, cols, left, top, width, height) ==
    LET frame == new_graphicFrame(id_, name, left, top, width, height)
        graphicData == SetAttr(graphicDataOf(frame), "uri", DATATYPE_TABLE)
    IN  WithGraphicData(frame, AppendChild(graphicData, new_tbl(rows, cols, width, height)))

\* CT_Chart.new_chart
CT_Chart_new_chart(rId) == Leaf("c:chart", <<Attr("r:id", rId)>>)

chartUri == <<"{D42A27DB-BD31-4B8C-83A1-F6EECF244321}">>

\* the <p:extLst> that new_chart hangs under <p:nvPr>
chartExtLst ==
    El("p:extLst", <<>>, None,
       << El("p:ext", <<Attr("uri", chartUri)>>, None,
             <<Leaf("p14:modId", <<Attr("val", <<"1947380272">>)>>)>>) >>)

\* a chart frame labelled with the table data type
NewChartTableUri(id_, rId, name, left, top, width, height) ==
    LET frame == new_graphicFrame(id_, name, left, top, width, height)
        graphicData == SetAttr(graphicDataOf(frame), "uri", DATATYPE_TABLE)
    IN  WithGraphicData(frame, AppendChild(graphicData, CT_Chart_new_chart(rId)))

\* CT_GraphicalObjectFrame.new_chart
new_chart(id_, rId, name, left, top, width, height) ==
    LET frame == new_graphicFrame(id_, name, left, top, width, height)
        graphicData == SetAttr(graphicDataOf(frame), "uri", DATATYPE_CHART)
        nv == Child(frame, "p:nvGraphicFramePr")
        styleData == AppendChild(Child(nv, "p:nvPr"), chartExtLst)
        frame1 == ReplaceChild(frame, "p:nvGraphicFramePr",
                               ReplaceChild(nv, "p:nvPr", styleData))
    IN  WithGraphicData(frame1, AppendChild(graphicData, CT_Chart_new_chart(rId)))

FrameNames == {<<"Table 1">>}
RIds == {<<"rId1">>, <<"rId7">>}

NewGraphicFrame ==
    /\ graphicFrame = None
    /\ \E id_ \in 1..MaxId, name \in FrameNames, left \in Emus, top \in Emus, width \in Emus,
          height \in Emus :
        /\ graphicFrame' = Some(new_graphicFrame(id_, name, left, top, width, height))
        /\ call' = Call("new_graphicFrame", "",
                        <<PyInt(id_), PyStr(name), PyInt(left), PyInt(top), PyInt(width),
                          PyInt(height)>>)
    /\ exc' = "none"
    /\ UNCHANGED <<tbl, assigned, cp, nsets, tc, shape, ret, para>>

NewTable ==
    /\ graphicFrame = None
    /\ \E id_ \in 1..MaxId, name \in FrameNames, rows \in 0..MaxRows, cols \in 0..MaxCols,
          left \in Emus, top \in Emus, width \in Emus, height \in Emus :
        /\ call' = Call("new_table", "",
                        <<PyInt(id_), PyStr(name), PyInt(rows), PyInt(cols), PyInt(left),
                          PyInt(top), PyInt(width), PyInt(height)>>)
        /\ IF rows = 0 \/ cols = 0
           THEN graphicFrame' = None /\ exc' = "ZeroDivisionError"
           ELSE /\ graphicFrame' =
                        Some(new_table(id_, name, rows, cols, left, top, width, height))
                /\ exc' = "none"
    /\ UNCHANGED <<tbl, assigned, cp, nsets, tc, shape, ret, para>>

NewChart ==
    /\ graphicFrame = None
    /\ \E id_ \in 1..MaxId, rId \in RIds, name \in FrameNames, left \in Emus, top \in Emus,
          width \in Emus, height \in Emus :
        /\ graphicFrame' = Some(new_chart(id_, rId, name, left, top, width, height))
        /\ call' = Call("new_chart", "",
                        <<PyInt(id_), PyStr(rId), PyStr(name), PyInt(left), PyInt(top),
                          PyInt(width), PyInt(height)>>)
    /\ exc' = "none"
    /\ UNCHANGED <<tbl, assigned, cp, nsets, tc, shape, ret, para>>

NextFrame == NewGraphicFrame \/ NewTable \/ NewChart

SpecFrame == InitCore /\ [][NextFrame]_vars

\* the payload of a frame: the children of <a:graphicData>
Payload(frame) == frame.children[3].children[1].children

uppercase == <<"A", "B", "C", "D", "E", "F", "G", "H", "I", "J", "K", "L", "M",
               "N", "O", "P", "Q", "R", "S", "T", "U", "V", "W", "X", "Y", "Z">>

\* sub_elm(parent, tag, val=...) for a leaf
ValLeaf(tag, val) == Leaf(tag, <<Attr("val", val)>>)

\* the <c:pt idx=".."><c:v>text</c:v></c:pt> elements of a cache
Pts(series) ==
    [i \in 1..Len(series) |->
        El("c:pt", <<Attr("idx", NatStr(i - 1))>>, None, <<Text("c:v", <<>>, Some(series[i]))>>)]

\* CT_ChartCell.strRef_node
strRef_node(series, series_ref) ==
    El("c:strRef", <<>>, None,
       << Text("c:f", <<>>, Some(series_ref)),
          El("c:strCache", <<>>, None,
             <<ValLeaf("c:ptCount", NatStr(Len(series)))>> \o Pts(series)) >>)

\* CT_ChartCell.numRef_node
numRef_node(series, series_ref) ==
    El("c:numRef", <<>>, None,
       << Text("c:f", <<>>, Some(series_ref)),
          El("c:numCache", <<>>, None,
             << Text("c:formatCode", <<>>, Some(<<"General">>)),
                ValLeaf("c:ptCount", NatStr(Len(series))) >> \o Pts(series)) >>)

\* a series numbered from one instead of zero
SerOneBased(idx, val, data) ==
    LET ref_series == <<"S", "h", "e", "e", "t", "1", "!", "$">> \o <<uppercase[idx + 1]>> \o <<"$", "1">>
        ref_cat == <<"S", "h", "e", "e", "t", "1", "!", "$", "A", "$", "2", ":", "$", "A", "$">> \o NatStr(Len(data[2]) + 1)
        ref_val == <<"S", "h", "e", "e", "t", "1", "!", "$">> \o <<uppercase[idx + 1]>> \o <<"$", "2", ":", "$">>
                      \o <<uppercase[idx + 1]>> \o <<"$">> \o NatStr(Len(data[1]) + 1)
    IN  El("c:ser", <<>>, None,
           << ValLeaf("c:idx", IntStr(idx)),
              ValLeaf("c:order", IntStr(idx)),
              El("c:tx", <<>>, None, <<strRef_node(val, ref_series)>>),
              El("c:marker", <<>>, None, <<ValLeaf("c:symbol", <<"none">>)>>),
              El("c:cat", <<>>, None, <<strRef_node(data[1], ref_cat)>>),
              El("c:val", <<>>, None, <<numRef_node(data[idx + 1], ref_val)>>),
              ValLeaf("c:smooth", <<"0">>) >>)

\* CT_ChartCell.new_chart, the body of the loop for heading number idx
\* (counted from 0) with value val; data[c + 1] is Python's data[c]
ser(idx, val, data) ==
    LET ref_series == <<"S", "h", "e", "e", "t", "1", "!", "$">> \o <<uppercase[idx + 1]>> \o <<"$", "1">>
        ref_cat == <<"S", "h", "e", "e", "t", "1", "!", "$", "A", "$", "2", ":", "$", "A", "$">> \o NatStr(Len(data[2]) + 1)
        ref_val == <<"S", "h", "e", "e", "t", "1", "!", "$">> \o <<uppercase[idx + 1]>> \o <<"$", "2", ":", "$">>
                      \o <<uppercase[idx + 1]>> \o <<"$">> \o NatStr(Len(data[1]) + 1)
    IN  El("c:ser", <<>>, None,
           << ValLeaf("c:idx", IntStr(idx - 1)),
              ValLeaf("c:order", IntStr(idx - 1)),
              El("c:tx", <<>>, None, <<strRef_node(val, ref_series)>>),
              El("c:marker", <<>>, None, <<ValLeaf("c:symbol", <<"none">>)>>),
              El("c:cat", <<>>, None, <<strRef_node(data[1], ref_cat)>>),
              El("c:val", <<>>, None, <<numRef_node(data[idx + 1], ref_val)>>),
              ValLeaf("c:smooth", <<"0">>) >>)

dLbls ==
    El("c:dLbls", <<>>, None,
       << ValLeaf("c:showLegendKey", <<"0">>), ValLeaf("c:showVal", <<"0">>),
          ValLeaf("c:showCatName", <<"0">>), ValLeaf("c:showSerName", <<"0">>),
          ValLeaf("c:showPercent", <<"0">>), ValLeaf("c:showBubbleSize", <<"0">>) >>)

\* CT_ChartCell.new_chart: IndexError when a heading after the first has no
\* letter (string.uppercase[idx]), no second column (data[1]) or no column
\* of its own (data[idx])
CT_ChartCell_new_chart(data, headings) ==
    IF Len(headings) >= 2 /\ (Len(headings) > 26 \/ Len(data) < 2 \/ Len(headings) > Len(data))
    THEN [exc |-> "IndexError", elm |-> None]
    ELSE [exc |-> "none",
          elm |-> Some(El("c:lineChart", <<>>, None,
                    << ValLeaf("c:grouping", <<"standard">>), ValLeaf("c:varyColors", <<"0">>) >>
                    \o [i \in 1..(Len(headings) - 1) |-> ser(i, headings[i + 1], data)]
                    \o << dLbls, ValLeaf("c:marker", <<"1">>), ValLeaf("c:smooth", <<"0">>),
                          ValLeaf("c:axId", <<"172167552">>),
                          ValLeaf("c:axId", <<"172169088">>) >>))]

MaxChartCols == 26
MaxChartRows == 2

\* k columns of N cells; the first column holds the category labels
ChartData(k, N) ==
    [c \in 1..k |-> [r \in 1..N |-> IF c = 1 THEN <<"c">> \o NatStr(r) ELSE NatStr(10 * c + r)]]

\* n headings, each wrapped in a list as CT_Chart_Container.new_chart does
ChartHeadings(n) == [c \in 1..n |-> << <<"h">> \o NatStr(c) >>]

NewLineChart ==
    /\ ret = None
    /\ \E k \in 1..MaxChartCols, N \in 0..MaxChartRows, d \in {0 - 1, 0, 1} :
        LET n == k + d
            r == CT_ChartCell_new_chart(ChartData(k, N), ChartHeadings(n))
        IN  /\ ret' = r.elm
            /\ exc' = r.exc
            /\ call' = Call("CT_ChartCell.new_chart", "", <<PyInt(k), PyInt(N), PyInt(n)>>)
    /\ UNCHANGED <<tbl, assigned, cp, nsets, tc, shape, graphicFrame, para>>

NextChart == NewLineChart

SpecChart == InitCore /\ [][NextChart]_vars

\* the <c:ser> children of a chart, in order
Series(chart) == SelectSeq(chart.children, LAMBDA c : c.tag = "c:ser")

\* the formula text under a <c:tx>, <c:cat> or <c:val> child of a series
FormulaOf(s, tag) == Child(Child(s, tag).children[1], "c:f").text

Sheet1 == <<"S", "h", "e", "e", "t", "1", "!", "$">>

\* what the claim says of the series built from k columns of N rows
SeriesAsClaimed(k, N) ==
    /\ exc = "none" /\ ret # None
    /\ LET sers == Series(ret[1])
       IN  /\ Len(sers) = k - 1
           /\ \A i \in 0..(k - 2) :
                 LET s == sers[i + 1]
                     L == uppercase[i + 2]
                 IN  /\ GetAttr(Child(s, "c:idx"), "val") = Some(NatStr(i))
                     /\ GetAttr(Child(s, "c:order"), "val") = Some(NatStr(i))
                     /\ FormulaOf(s, "c:tx") = Some(Sheet1 \o <<L, "$", "1">>)
                     /\ FormulaOf(s, "c:cat")
                           = Some(Sheet1 \o <<"A", "$", "2", ":", "$", "A", "$">> \o NatStr(N + 1))
                     /\ FormulaOf(s, "c:val")
                           = Some(Sheet1 \o <<L, "$", "2", ":", "$", L, "$">> \o NatStr(N + 1))

ChartCalled == call.op = "CT_ChartCell.new_chart"

\* C18 as stated: for k columns (1 <= k <= 26) of N rows each and any
\* heading list, the builder emits one series per data column after the
\* first, in column order, the i-th with index and order i and the name,
\* category and value formulas of column i+1.
C18_SeriesPerDataColumn ==
    (ChartCalled /\ call.args[1].i \in 1..26) =>
        SeriesAsClaimed(call.args[1].i, call.args[2].i)

\* C18 as the code has it: the same, for a heading list that has one
\* heading per data column.
C18_SeriesPerHeading ==
    (ChartCalled /\ call.args[1].i \in 1..26 /\ call.args[3].i = call.args[1].i) =>
        SeriesAsClaimed(call.args[1].i, call.args[2].i)

\* three columns of two rows with three headings: two series, B and C
C18_Witness ==
    /\ ChartCalled /\ call.args = <<PyInt(3), PyInt(2), PyInt(3)>>
    /\ ret # None /\ Len(Series(ret[1])) = 2
    /\ FormulaOf(Series(ret[1])[2], "c:val")
          = Some(<<"S", "h", "e", "e", "t", "1", "!", "$", "C", "$", "2", ":", "$", "C", "$", "3">>)

\* --------------------------------------------------------- qualified names
\* the namespace registry imported from pptx.spec: prefix -> URI
nsmap ==
    [pfx \in {<<"a">>, <<"c">>, <<"p">>, <<"r">>, <<"c", "p">>, <<"d", "c">>} |->
        CASE pfx = <<"a">> -> <<"http://schemas.openxmlformats.org/drawingml/2006/main">>
          [] pfx = <<"c">> -> <<"http://schemas.openxmlformats.org/drawingml/2006/chart">>
          [] pfx = <<"p">> -> <<"http://schemas.openxmlformats.org/presentationml/2006/main">>
          [] pfx = <<"r">> ->
                <<"http://schemas.openxmlformats.org/officeDocument/2006/relationships">>
          [] pfx = <<"c", "p">> ->
                <<"http://schemas.openxmlformats.org/package/2006/metadata/core-properties">>
          [] pfx = <<"d", "c">> -> <<"http://purl.org/dc/elements/1.1/">>]

RECURSIVE split(_, _)
\* tag.split(sep): the pieces between the separators, empty ones included
split(str, sep) ==
    IF \A i \in 1..Len(str) : str[i] # sep THEN <<str>>
    ELSE LET k == CHOOSE i \in 1..Len(str) :
                      str[i] = sep /\ \A j \in 1..(i - 1) : str[j] # sep
         IN  <<SubSeq(str, 1, k - 1)>> \o split(SubSeq(str, k + 1, Len(str)), sep)

\* a resolver that splits at the first colon only, as tag.split(':', 1) would
QnFirstColon(tag) ==
    LET parts == split(tag, ":")
        k == Len(parts[1])
    IN  IF Len(parts) < 2 THEN [exc |-> "ValueError", val |-> None]
        ELSE IF parts[1] \notin DOMAIN nsmap THEN [exc |-> "KeyError", val |-> None]
        ELSE [exc |-> "none",
              val |-> Some(<<"{">> \o nsmap[parts[1]] \o <<"}">> \o SubSeq(tag, k + 2, Len(tag)))]

\* qn: the unpacking prefix, tagroot = tag.split(':') needs exactly two pieces
qn(tag) ==
    LET parts == split(tag, ":")
    IN  IF Len(parts) # 2 THEN [exc |-> "ValueError", val |-> None]
        ELSE IF parts[1] \notin DOMAIN nsmap THEN [exc |-> "KeyError", val |-> None]
        ELSE [exc |-> "none", val |-> Some(<<"{">> \o nsmap[parts[1]] \o <<"}">> \o parts[2])]

MaxTagLen == 4

TagChars == {"a", "c", "p", "x", ":"}

Tags == UNION {[1..n -> TagChars] : n \in 0..MaxTagLen}

Qn ==
    /\ ret = None /\ call = NoCall
    /\ \E tag \in Tags :
        /\ ret' = qn(tag).val
        /\ exc' = qn(tag).exc
        /\ call' = Call("qn", "", <<PyStr(tag)>>)
    /\ UNCHANGED <<tbl, assigned, cp, nsets, tc, shape, graphicFrame, para>>

NextQn == Qn

SpecQn == InitCore /\ [][NextQn]_vars

QnCalled == call.op = "qn"

Colons(t) == {i \in 1..Len(t) : t[i] = ":"}

\* the qualified name for a tag cut at position k: the URI registered for
\* the text before k, in braces, then the text after k
Resolved(t, k) ==
    IF SubSeq(t, 1, k - 1) \in DOMAIN nsmap
    THEN exc = "none"
         /\ ret = Some(<<"{">> \o nsmap[SubSeq(t, 1, k - 1)] \o <<"}">> \o SubSeq(t, k + 1, Len(t)))
    ELSE exc = "KeyError"

\* C19 as stated: qn cuts its argument at the first colon and returns the
\* URI of the prefix with the rest as local name; it raises the
\* malformed-name error exactly when there is no colon, and the
\* unknown-prefix error when the prefix is not registered.
C19_QnSplitsAtFirstColon ==
    QnCalled =>
        LET t == call.args[1].s
        IN  /\ exc = "ValueError" <=> Colons(t) = {}
            /\ Colons(t) # {} =>
                  Resolved(t, CHOOSE k \in Colons(t) : \A j \in Colons(t) : k <= j)

\* C19 as the code has it: qn raises the malformed-name error exactly
\* when its argument does not hold exactly one colon; with one colon it
\* returns the URI of the prefix with the rest as local name, or raises the
\* unknown-prefix error when the prefix is not registered.
C19_QnNeedsOneColon ==
    QnCalled =>
        LET t == call.args[1].s
        IN  /\ exc = "ValueError" <=> Cardinality(Colons(t)) # 1
            /\ Cardinality(Colons(t)) = 1 => Resolved(t, CHOOSE k \in Colons(t) : TRUE)

\* cp:x was resolved under a two-letter prefix
C19_Witness ==
    /\ QnCalled /\ call.args[1].s = <<"c", "p", ":", "x">>
    /\ ret = Some(<<"{", "http://schemas.openxmlformats.org/package/2006/metadata/core-properties",
                    "}", "x">>)

\* ------------------------------------------------- serialize and parse
\* XML text is a sequence of tokens: a start tag, an empty-element tag, an
\* end tag, or character data; attribute values and character data are in
\* their escaped form.  Namespace declarations are not part of the model.
Token(k, tag, attrib, s) == [k |-> k, tag |-> tag, attrib |-> attrib, s |-> s]

\* character data as libxml2 writes it
EscapeText(text) ==
    [i \in 1..Len(text) |->
        CASE text[i] = "&" -> "&amp;"
          [] text[i] = "<" -> "&lt;"
          [] text[i] = ">" -> "&gt;"
          [] OTHER -> text[i]]

\* an attribute value as libxml2 writes it
EscapeAttr(text) ==
    [i \in 1..Len(text) |->
        CASE text[i] = "&" -> "&amp;"
          [] text[i] = "<" -> "&lt;"
          [] text[i] = ">" -> "&gt;"
          [] text[i] = "\"" -> "&quot;"
          [] OTHER -> text[i]]

\* references resolved by the parser
Unescape(text) ==
    [i \in 1..Len(text) |->
        CASE text[i] = "&amp;" -> "&"
          [] text[i] = "&lt;" -> "<"
          [] text[i] = "&gt;" -> ">"
          [] text[i] = "&quot;" -> "\""
          [] OTHER -> text[i]]

RECURSIVE Concat(_)
Concat(seqs) == IF seqs = <<>> THEN <<>> ELSE Head(seqs) \o Concat(Tail(seqs))

RECURSIVE DeannotateXsi(_)
\* objectify.deannotate with xsi left at its default of True: the xsi:type
\* attributes go as well
DeannotateXsi(elm) ==
    [elm EXCEPT
        !.attrib = SelectSeq(elm.attrib, LAMBDA a : a.name \notin {"py:pytype", "xsi:type"}),
        !.children = [i \in 1..Len(elm.children) |-> DeannotateXsi(elm.children[i])]]

RECURSIVE deannotate(_)
\* objectify.deannotate(elm, xsi=False, cleanup_namespaces=True): every
\* py:pytype attribute of the tree goes, xsi:type stays
deannotate(elm) ==
    [elm EXCEPT
        !.attrib = SelectSeq(elm.attrib, LAMBDA a : a.name # "py:pytype"),
        !.children = [i \in 1..Len(elm.children) |-> deannotate(elm.children[i])]]

RECURSIVE tostring(_)
\* etree.tostring: <tag/> for an element with no text node and no child,
\* else the start tag, the character data if there is any, the children,
\* the end tag
tostring(elm) ==
    LET attrib == [i \in 1..Len(elm.attrib) |->
                      Attr(elm.attrib[i].name, EscapeAttr(elm.attrib[i].value))]
    IN  IF elm.text = None /\ elm.children = <<>>
        THEN <<Token("empty", elm.tag, attrib, <<>>)>>
        ELSE <<Token("start", elm.tag, attrib, <<>>)>>
             \o (IF elm.text # None /\ elm.text[1] # <<>>
                 THEN <<Token("text", "", <<>>, EscapeText(elm.text[1]))>> ELSE <<>>)
             \o Concat([i \in 1..Len(elm.children) |-> tostring(elm.children[i])])
             \o <<Token("end", elm.tag, <<>>, <<>>)>>

\* oxml_tostring: the tree is deannotated in place, then written
oxml_tostring(elm) == [elm |-> deannotate(elm), text |-> tostring(deannotate(elm))]

IsBlank(text) == \A i \in 1..Len(text) : text[i] \in {" ", "\n", "\t", "\r"}

RECURSIVE ParseElement(_, _)
RECURSIVE ParseContent(_, _, _, _)
\* the element that starts at token i, and the position after it
ParseElement(toks, i) ==
    LET attrib == [j \in 1..Len(toks[i].attrib) |->
                      Attr(toks[i].attrib[j].name, Unescape(toks[i].attrib[j].value))]
    IN  IF toks[i].k = "empty"
        THEN [elm |-> El(toks[i].tag, attrib, None, <<>>), next |-> i + 1]
        ELSE LET r == ParseContent(toks, i + 1, <<>>, None)
             IN  [elm |-> El(toks[i].tag, attrib, r.text, r.children), next |-> r.next + 1]

\* the content up to the end tag; with remove_blank_text, character data
\* made of blanks only is dropped unless it is all the content of a leaf
ParseContent(toks, i, children, text) ==
    IF toks[i].k = "end" THEN [children |-> children, text |-> text, next |-> i]
    ELSE IF toks[i].k = "text"
    THEN LET keep == ~IsBlank(toks[i].s) \/ (children = <<>> /\ toks[i + 1].k = "end")
         IN  ParseContent(toks, i + 1, children,
                          IF keep /\ children = <<>> THEN Some(Unescape(toks[i].s)) ELSE text)
    ELSE LET r == ParseElement(toks, i)
         IN  ParseContent(toks, r.next, Append(children, r.elm), text)

\* oxml_fromstring
oxml_fromstring(text) == ParseElement(text, 1).elm

\* string values that need escaping or are blank
MarkupInputs ==
    { PyStr(<<" ">>), PyStr(<<" ", "\n">>), PyStr(<<"a", "&", "<", "b", ">">>),
      PyStr(<<"\"", "q", "\"", " ">>) }

\* CT_CoreProperties.__setattr__ for a string property, with such values
SetStrPropMarkup ==
    /\ cp # None /\ nsets < MaxSets
    /\ \E name \in StrNames, value \in MarkupInputs :
        LET r == __set_str_prop(cp[1], name, value)
        IN  /\ cp' = Some(r.elm)
            /\ exc' = r.exc
            /\ call' = Call("__set_str_prop", name, <<value>>)
    /\ nsets' = nsets + 1
    /\ UNCHANGED <<tbl, assigned, tc, shape, graphicFrame, ret, para>>

\* CT_TableCell.__setattr__ for the anchor, with a value that needs escaping
SetAnchorMarkup ==
    /\ tc # None /\ nsets < MaxSets
    /\ \E value \in {PyStr(<<"\"", "&", "<">>)} :
        /\ tc' = Some(_set_anchor(tc[1], value))
        /\ call' = Call("_set_anchor", "anchor", <<value>>)
    /\ nsets' = nsets + 1
    /\ exc' = "none"
    /\ UNCHANGED <<tbl, assigned, cp, shape, graphicFrame, ret, para>>

\* nothing was built yet
Fresh ==
    /\ call = NoCall
    /\ tbl = None /\ cp = None /\ tc = None /\ shape = None /\ graphicFrame = None
    /\ ret = None

Written == call.op = "oxml_tostring"

\* one more setter call may be made on the tree built
Few == ~Written /\ nsets < MaxSets - 1

\* oxml_tostring on the tree built: the tree is deannotated in place and
\* the text is returned
OxmlTostring ==
    /\ ~Written
    /\ \/ /\ tbl # None
          /\ tbl' = Some(oxml_tostring(tbl[1]).elm)
          /\ ret' = Some(oxml_tostring(tbl[1]).text)
          /\ call' = Call("oxml_tostring", "tbl", <<>>)
          /\ UNCHANGED <<cp, tc, shape, graphicFrame>>
       \/ /\ cp # None
          /\ cp' = Some(oxml_tostring(cp[1]).elm)
          /\ ret' = Some(oxml_tostring(cp[1]).text)
          /\ call' = Call("oxml_tostring", "cp", <<>>)
          /\ UNCHANGED <<tbl, tc, shape, graphicFrame>>
       \/ /\ tc # None
          /\ tc' = Some(oxml_tostring(tc[1]).elm)
          /\ ret' = Some(oxml_tostring(tc[1]).text)
          /\ call' = Call("oxml_tostring", "tc", <<>>)
          /\ UNCHANGED <<tbl, cp, shape, graphicFrame>>
       \/ /\ shape # None
          /\ shape' = Some(oxml_tostring(shape[1]).elm)
          /\ ret' = Some(oxml_tostring(shape[1]).text)
          /\ call' = Call("oxml_tostring", "shape", <<>>)
          /\ UNCHANGED <<tbl, cp, tc, graphicFrame>>
       \/ /\ graphicFrame # None
          /\ graphicFrame' = Some(oxml_tostring(graphicFrame[1]).elm)
          /\ ret' = Some(oxml_tostring(graphicFrame[1]).text)
          /\ call' = Call("oxml_tostring", "graphicFrame", <<>>)
          /\ UNCHANGED <<tbl, cp, tc, shape>>
       \/ /\ call.op = "CT_ChartCell.new_chart" /\ ret # None
          /\ ret' = Some(oxml_tostring(ret[1]).text)
          /\ call' = Call("oxml_tostring", "ret", <<>>)
          /\ UNCHANGED <<tbl, cp, tc, shape, graphicFrame>>
    /\ exc' = "none"
    /\ UNCHANGED <<assigned, nsets, para>>

\* one tree is built by a factory (or read from a part), changed by at
\* most MaxSets - 1 setter calls, and written
NextRoundTrip ==
    \/ (Fresh /\ NewTbl({1, 2}, {1, 2}, {MaxEmu}))
    \/ (~Written /\ assigned = NeverAssigned /\ SetBooleanProperty)
    \/ (Fresh /\ NewTc)
    \/ (Fresh /\ FromstringTc)
    \/ (Few /\ SetMarX)
    \/ (Few /\ SetAnchor)
    \/ (Few /\ SetAnchorMarkup)
    \/ (Fresh /\ NewPlaceholderSp)
    \/ (Fresh /\ NewAutoshapeSp)
    \/ (Fresh /\ NewTextboxSp)
    \/ (Fresh /\ NewGraphicFrame)
    \/ (Fresh /\ NewTable)
    \/ (Fresh /\ NewChart)
    \/ (Fresh /\ NewCoreProperties)
    \/ (Fresh /\ FromstringCoreProperties)
    \/ (Few /\ SetStrProp)
    \/ (Few /\ SetStrPropMarkup)
    \/ (Few /\ SetDateProp)
    \/ (Few /\ SetRevision)
    \/ (Fresh /\ NewLineChart)
    \/ OxmlTostring

SpecRoundTrip == InitCore /\ [][NextRoundTrip]_vars

\* the tree that call name refers to
Built(name) ==
    CASE name = "tbl" -> tbl[1]
      [] name = "cp" -> cp[1]
      [] name = "tc" -> tc[1]
      [] name = "shape" -> shape[1]
      [] name = "graphicFrame" -> graphicFrame[1]
      [] name = "ret" -> ret[1]

RECURSIVE WithoutPytype(_)
\* the tree without objectify's py:pytype annotations
WithoutPytype(e) ==
    El(e.tag, SelectSeq(e.attrib, LAMBDA a : a.name # "py:pytype"), e.text,
       [i \in 1..Len(e.children) |-> WithoutPytype(e.children[i])])

RECURSIVE EmptyTextAsNone(_)
\* the tree with the empty string as text taken for no text
EmptyTextAsNone(e) ==
    El(e.tag, e.attrib, IF e.text = Some(<<>>) THEN None ELSE e.text,
       [i \in 1..Len(e.children) |-> EmptyTextAsNone(e.children[i])])

\* no tag of the text carries a py:pytype attribute
NoPytypeIn(text) ==
    \A i \in 1..Len(text) : \A j \in 1..Len(text[i].attrib) :
        text[i].attrib[j].name # "py:pytype"

\* every created/modified child that had xsi:type="dcterms:W3CDTF" is
\* written with it
XsiTypeWritten(before, text) ==
    \A i \in 1..Len(before.children) :
        (/\ before.children[i].tag \in {"dcterms:created", "dcterms:modified"}
         /\ \E j \in 1..Len(before.children[i].attrib) :
               before.children[i].attrib[j] = Attr("xsi:type", W3CDTF_TYPE))
        => \E k \in 1..Len(text) :
              /\ text[k].tag = before.children[i].tag
              /\ text[k].k \in {"start", "empty"}
              /\ \E j \in 1..Len(text[k].attrib) :
                    text[k].attrib[j] = Attr("xsi:type", W3CDTF_TYPE)

\* C20 as stated: writing a built tree with oxml_tostring and parsing the
\* text back gives a tree with the same elements, attributes, child order
\* and text (type annotations aside); the text carries no py:pytype
\* annotation and keeps xsi:type="dcterms:W3CDTF" on created/modified.
C20_RoundTripSameTree ==
    [][call'.op = "oxml_tostring" =>
          /\ oxml_fromstring(ret'[1]) = WithoutPytype(Built(call'.name))
          /\ NoPytypeIn(ret'[1])
          /\ XsiTypeWritten(Built(call'.name), ret'[1])]_vars

\* C20 as the code has it: the same, except that an element whose text is
\* the empty string comes back with no text.
C20_RoundTripUpToEmptyText ==
    [][call'.op = "oxml_tostring" =>
          /\ oxml_fromstring(ret'[1]) = EmptyTextAsNone(WithoutPytype(Built(call'.name)))
          /\ NoPytypeIn(ret'[1])
          /\ XsiTypeWritten(Built(call'.name), ret'[1])]_vars

\* a core-properties tree whose created date was set has been written: the
\* child kept xsi:type and lost py:pytype
C20_Witness ==
    /\ Written /\ call.name = "cp" /\ cp # None
    /\ HasChild(cp[1], "dcterms:created")
    /\ Child(cp[1], "dcterms:created").attrib = <<Attr("xsi:type", W3CDTF_TYPE)>>
    /\ \E k \in 1..Len(ret[1]) :
          ret[1][k].tag = "dcterms:created" /\ ret[1][k].attrib = <<Attr("xsi:type", W3CDTF_TYPE)>>

\* ---- cell properties block: life cycle
CellSet == call.op \in {"_set_marX", "_set_anchor"} /\ tc # None

\* C21: after any margin or anchor assignment, a <a:tcPr> block that is
\* present holds at least one attribute.
C21_NoEmptyBlockAfterSet ==
    CellSet => (HasChild(tc[1], "a:tcPr") => Len(Child(tc[1], "a:tcPr").attrib) > 0)

\* the block of a factory-made cell went with the first clearing assignment
C21_Witness ==
    /\ CellSet /\ nsets = 1 /\ call.args[1] = PyNone
    /\ tc[1] = NewTcNoTcPr

MarDefault == [m \in MarNames |-> IF m \in {"marT", "marB"} THEN 45720 ELSE 91440]

\* C22 as stated: assigning a margin its own default value on a cell with
\* no <a:tcPr> block leaves the cell without one.
C22_DefaultCreatesNoBlock ==
    [][(/\ call'.op = "_set_marX"
        /\ call'.args[1] = PyInt(MarDefault[call'.name])
        /\ ~HasChild(tc[1], "a:tcPr"))
          => ~HasChild(tc'[1], "a:tcPr")]_vars

\* C22 as the code has it: on a cell with no <a:tcPr> block, assigning a
\* margin any value but None, its own default included, creates the block
\* holding that one attribute; assigning None creates nothing.
C22_AnyValueCreatesBlock ==
    [][(call'.op = "_set_marX" /\ ~HasChild(tc[1], "a:tcPr")) =>
          IF call'.args[1] = PyNone THEN tc' = tc
          ELSE /\ HasChild(tc'[1], "a:tcPr")
               /\ Child(tc'[1], "a:tcPr").attrib
                     = <<Attr(call'.name, IntStr(call'.args[1].i))>>]_vars

\* marT = 45720 was assigned and is stored in a block
C22_Witness ==
    /\ CellSet /\ call.name = "marT" /\ call.args[1] = PyInt(45720)
    /\ HasChild(tc[1], "a:tcPr")
    /\ Child(tc[1], "a:tcPr").attrib = <<Attr("marT", <<"4", "5", "7", "2", "0">>)>>

\* C23: an assignment that has to create <a:tcPr> puts it right after
\* <a:txBody> when the cell has one and first otherwise, the other children
\* keeping their order; when the block exists no child is added or moved.
C23_BlockPosition ==
    [][(call'.op \in {"_set_marX", "_set_anchor"} /\ call'.args[1] # PyNone) =>
          LET before == tc[1].children
              after == tc'[1].children
              tags(cs) == [i \in 1..Len(cs) |-> cs[i].tag]
          IN  IF HasChild(tc[1], "a:tcPr")
              THEN tags(after) = tags(before)
                   /\ \A i \in 1..Len(before) : before[i].tag # "a:tcPr" => after[i] = before[i]
              ELSE /\ ChildrenWithout(tc'[1], "a:tcPr") = before
                   /\ Len(after) = Len(before) + 1
                   /\ IF HasChild(tc[1], "a:txBody")
                      THEN \E i \in 1..Len(before) :
                              before[i].tag = "a:txBody" /\ after[i + 1].tag = "a:tcPr"
                      ELSE after[1].tag = "a:tcPr"]_vars

\* the block was created between <a:txBody> and <a:extLst>
C23_Witness ==
    /\ CellSet /\ nsets = 1
    /\ [i \in 1..Len(tc[1].children) |-> tc[1].children[i].tag]
          = <<"a:txBody", "a:tcPr", "a:extLst">>

\* ---- table properties block: life cycle
\* C24: once <a:tblPr> exists it exists in every later state; a falsy
\* assignment on a table without the block changes nothing, and a truthy
\* one creates the block as the first child.
C24_TblPrPersists ==
    [][(tbl # None /\ call'.op = "_set_boolean_property") =>
          /\ has_tblPr(tbl[1]) => has_tblPr(tbl'[1])
          /\ ~has_tblPr(tbl[1]) =>
                IF assigned'[call'.name] = "falsy" THEN tbl' = tbl
                ELSE /\ tbl'[1].children[1].tag = "a:tblPr"
                     /\ Tail(tbl'[1].children) = tbl[1].children]_vars

\* the block outlived the removal of its last attribute
C24_Witness ==
    /\ tbl # None /\ call.op = "_set_boolean_property"
    /\ assigned[call.name] = "falsy"
    /\ has_tblPr(tbl[1])
    /\ Child(tbl[1], "a:tblPr").attrib = <<>>
    /\ \E p \in BOOLPROPS : assigned[p] = "falsy" /\ p # call.name

\* -------------------------------------------------------------- paragraph
\* CT_TextParagraph.get_algn
get_algn(elm) ==
    IF ~HasChild(elm, "a:pPr") THEN None
    ELSE GetAttr(Child(elm, "a:pPr"), "algn")

\* a clear that leaves the emptied block in place
ClearAlgnNoPrune(elm) ==
    IF ~HasChild(elm, "a:pPr") THEN elm
    ELSE IF HasAttr(Child(elm, "a:pPr"), "algn")
         THEN ReplaceChild(elm, "a:pPr", DelAttr(Child(elm, "a:pPr"), "algn"))
         ELSE elm

\* CT_TextParagraph._clear_algn
_clear_algn(elm) ==
    IF ~HasChild(elm, "a:pPr") THEN elm
    ELSE LET pPr == Child(elm, "a:pPr")
             cleared == IF HasAttr(pPr, "algn") THEN DelAttr(pPr, "algn") ELSE pPr
         IN  IF Len(cleared.attrib) = 0 THEN RemoveChild(elm, "a:pPr")
             ELSE ReplaceChild(elm, "a:pPr", cleared)

\* CT_TextParagraph.set_algn
set_algn(elm, value) ==
    IF value.type = "NoneType" THEN _clear_algn(elm)
    ELSE LET e == IF HasChild(elm, "a:pPr") THEN elm
                  ELSE InsertFirst(elm, El("a:pPr", <<>>, None, <<>>))
         IN  ReplaceChild(e, "a:pPr", SetAttr(Child(e, "a:pPr"), "algn", value.s))

\* the paragraphs of the text-body templates, and paragraphs read from a
\* slide: with a run, with a block holding other attributes, with both
Paragraphs ==
    { Leaf("a:p", <<>>),
      El("a:p", <<>>, None, <<Leaf("a:pPr", <<Attr("algn", <<"ctr">>)>>)>>),
      El("a:p", <<>>, None, <<Leaf("a:r", <<>>), Leaf("a:endParaRPr", <<>>)>>),
      El("a:p", <<>>, None, <<Leaf("a:pPr", <<Attr("lvl", <<"1">>)>>), Leaf("a:r", <<>>)>>),
      El("a:p", <<>>, None,
         <<Leaf("a:pPr", <<Attr("algn", <<"l">>), Attr("lvl", <<"1">>)>>), Leaf("a:r", <<>>)>>),
      El("a:p", <<>>, None,
         <<Leaf("a:pPr", <<Attr("lvl", <<"2">>), Attr("algn", <<"r">>)>>), Leaf("a:endParaRPr", <<>>)>>),
      El("a:p", <<>>, None,
         <<Leaf("a:pPr", <<Attr("marL", <<"0">>), Attr("indent", <<"0">>)>>), Leaf("a:r", <<>>),
           Leaf("a:br", <<>>), Leaf("a:r", <<>>)>>),
      El("a:p", <<>>, None,
         <<El("a:pPr", <<Attr("algn", <<"just">>)>>, None, <<Leaf("a:buNone", <<>>)>>),
           Leaf("a:r", <<>>)>>),
      El("a:p", <<>>, None, <<Leaf("a:fld", <<>>)>>) }

FromstringP ==
    /\ para = None
    /\ \E e \in Paragraphs :
        /\ para' = Some(e)
        /\ call' = Call("oxml_fromstring", "a:p", <<>>)
    /\ nsets' = 0
    /\ exc' = "none"
    /\ UNCHANGED <<tbl, assigned, cp, tc, shape, graphicFrame, ret>>

AlgnInputs ==
    {PyNone, PyStr(<<"l">>), PyStr(<<"ctr">>), PyStr(<<"r">>), PyStr(<<"just">>), PyStr(<<"dist">>)}

SetAlgn ==
    /\ para # None /\ nsets < MaxSets
    /\ \E value \in AlgnInputs :
        /\ para' = Some(set_algn(para[1], value))
        /\ call' = Call("set_algn", "algn", <<value>>)
    /\ nsets' = nsets + 1
    /\ exc' = "none"
    /\ UNCHANGED <<tbl, assigned, cp, tc, shape, graphicFrame, ret>>

NextP == FromstringP \/ SetAlgn

SpecP == InitCore /\ [][NextP]_vars

\* C25: set_algn with a value creates <a:pPr> as the first child when it
\* is absent, and get_algn then returns the value; set_algn(None) removes
\* algn and removes the block exactly when no attribute is left, and
\* get_algn then returns None; the other attributes of a surviving block
\* and the other children are untouched.
C25_AlgnSetGet ==
    [][call'.op = "set_algn" =>
          LET before == para[1]
              after == para'[1]
              value == call'.args[1]
              rest == AttribWithout(Child(before, "a:pPr"), "algn")
          IN  /\ ChildrenWithout(after, "a:pPr") = ChildrenWithout(before, "a:pPr")
              /\ IF value # PyNone
                 THEN /\ get_algn(after) = Some(value.s)
                      /\ HasChild(after, "a:pPr")
                      /\ IF HasChild(before, "a:pPr")
                         THEN /\ AttribWithout(Child(after, "a:pPr"), "algn") = rest
                              /\ ChildIdx(after, "a:pPr") = ChildIdx(before, "a:pPr")
                         ELSE after.children
                                = <<Leaf("a:pPr", <<Attr("algn", value.s)>>)>> \o before.children
                 ELSE /\ get_algn(after) = None
                      /\ IF ~HasChild(before, "a:pPr") THEN after = before
                         ELSE /\ HasChild(after, "a:pPr") <=> rest # <<>>
                              /\ rest # <<>> => Child(after, "a:pPr").attrib = rest]_vars

\* the alignment was cleared and the block stayed with its lvl attribute
C25_Witness ==
    /\ call.op = "set_algn" /\ call.args[1] = PyNone /\ para # None
    /\ nsets = 2
    /\ HasChild(para[1], "a:pPr")
    /\ Child(para[1], "a:pPr").attrib = <<Attr("lvl", <<"1">>)>>

\* C26: after a successful date set the backing child carries the
\* xsi:type annotation dcterms:W3CDTF exactly when the property is created
\* or modified, never for last_printed, and the root element has the same
\* attributes as before the set: the throwaway xsi:foo is not left behind.
C26_DateTypeAnnotation ==
    [][(call'.op = "__set_date_prop" /\ exc' = "none") =>
          LET child == Child(cp'[1], _date_tags[call'.name])
          IN  /\ HasChild(cp'[1], _date_tags[call'.name])
              /\ (GetAttr(child, "xsi:type") = Some(W3CDTF_TYPE))
                    <=> (call'.name \in {"created", "modified"})
              /\ call'.name = "last_printed" => ~HasAttr(child, "xsi:type")
              /\ cp'[1].attrib = cp[1].attrib
              /\ ~HasAttr(cp'[1], "xsi:foo")]_vars

\* modified was set on a new element and its child is annotated
C26_Witness ==
    /\ call.op = "__set_date_prop" /\ exc = "none" /\ call.name = "modified"
    /\ cp # None
    /\ cp[1] = El("cp:coreProperties", <<>>, None,
                  <<Text("dcterms:modified",
                         <<Attr("py:pytype", <<"s", "t", "r">>), Attr("xsi:type", W3CDTF_TYPE)>>,
                         Some(Strftime(Datetime(2003, 12, 31, 10, 14, 55, 0))))>>)

\* CT_CoreProperties.__getattribute__, by the kind of name: [exc, val]
__getattribute__(elm, name) ==
    IF name \in StrNames THEN [exc |-> "none", val |-> __get_str_prop(elm, name)]
    ELSE IF name \in DateNames THEN __get_date_prop(elm, name)
    ELSE __get_revision(elm)

PropNames == StrNames \cup DateNames \cup {"revision"}

TagOf(name) ==
    IF name \in StrNames THEN _str_tags[name]
    ELSE IF name \in DateNames THEN _date_tags[name]
    ELSE "cp:revision"

\* the number of children of e tagged tag
CountChildren(e, tag) == Len(SelectSeq(e.children, LAMBDA c : c.tag = tag))

CoreSet == call.op \in {"__set_str_prop", "__set_date_prop", "__set_revision"}

\* C29: a successful set of one core property leaves every other property
\* reading as it did before the set.
C29_SetChangesOnlyItsProperty ==
    [][(CoreSet' /\ exc' = "none") =>
          \A q \in PropNames \ {call'.name} :
              __getattribute__(cp'[1], q) = __getattribute__(cp[1], q)]_vars

\* C29: after any sequence of sets each property is backed by at most one
\* child, and the child of the property last set holds the value set.
C29_OneChildHoldsLastValue ==
    (CoreSet /\ cp # None) =>
        /\ \A q \in PropNames : CountChildren(cp[1], TagOf(q)) <= 1
        /\ exc = "none" =>
              Child(cp[1], TagOf(call.name)).text
                = Some(IF call.op = "__set_date_prop" THEN Strftime(call.args[1].dt)
                       ELSE PyStrOf(call.args[1]).s)

C29_Frame ==
    /\ C29_SetChangesOnlyItsProperty
    /\ []C29_OneChildHoldsLastValue

\* the title of a parsed part was set a second time: one child, last value
C29_Witness ==
    /\ call.op = "__set_str_prop" /\ call.name = "title" /\ exc = "none"
    /\ nsets = 2 /\ cp # None
    /\ CountChildren(cp[1], "dc:title") = 1
    /\ __get_str_prop(cp[1], "title") = Some(<<"a", "b">>)
    /\ __get_str_prop(cp[1], "author") = Some(<<"m", "e">>)
    /\ __get_revision(cp[1]) = [exc |-> "none", val |-> 12]

CellProps == MarNames \cup {"anchor"}

\* what the property name of a cell reads: [exc, val]
CellRead(elm, name) ==
    CASE name = "marT" -> marT(elm)
      [] name = "marR" -> marR(elm)
      [] name = "marB" -> marB(elm)
      [] name = "marL" -> marL(elm)
      [] name = "anchor" -> [exc |-> "none", val |-> anchor(elm)]

\* what name reads after value was assigned to it
CellExpected(name, value) ==
    IF name = "anchor"
    THEN [exc |-> "none", val |-> IF value = PyNone THEN None ELSE Some(value.s)]
    ELSE [exc |-> "none", val |-> IF value = PyNone THEN MarDefault[name] ELSE value.i]

\* C30: after any sequence of assignments to marT, marR, marB, marL and
\* anchor each getter returns the value most recently assigned to it, or
\* its default (45720, 91440, absent) when it was never assigned on a new
\* cell or was last assigned None; an assignment to one property never
\* changes what another property reads.
C30_CellGetters ==
    /\ [](call.op = "new_tc" =>
            \A q \in CellProps : CellRead(tc[1], q) = CellExpected(q, PyNone))
    /\ [][call'.op \in {"_set_marX", "_set_anchor"} =>
            /\ CellRead(tc'[1], call'.name) = CellExpected(call'.name, call'.args[1])
            /\ \A q \in CellProps \ {call'.name} :
                   CellRead(tc'[1], q) = CellRead(tc[1], q)]_vars

\* the anchor was assigned on a new cell, then marT was assigned None
C30_Witness ==
    /\ call.op = "_set_marX" /\ call.name = "marT" /\ call.args[1] = PyNone
    /\ nsets = 2 /\ tc # None
    /\ anchor(tc[1]) = Some(<<"c", "t", "r">>)
    /\ \A q \in MarNames : CellRead(tc[1], q) = CellExpected(q, PyNone)

\* ------------------------------------------------------------ chart space
\* CT_Chart_Container.new_chart_wrapper: _chart_tmpl with the relationship
\* id filled in, read with oxml_fromstring
new_chart_wrapper(rId) ==
    El("c:chartSpace", <<>>, None,
       << ValLeaf("c:date1904", <<"0">>),
          ValLeaf("c:lang", <<"en-US">>),
          ValLeaf("c:roundedCorners", <<"0">>),
          El("mc:AlternateContent", <<>>, None,
             << El("mc:Choice", <<Attr("Requires", <<"c14">>)>>, None,
                   <<ValLeaf("c14:style", <<"102">>)>>),
                El("mc:Fallback", <<>>, None, <<ValLeaf("c:style", <<"2">>)>>) >>),
          El("c:chart", <<>>, None,
             << ValLeaf("c:autoTitleDeleted", <<"0">>),
                El("c:plotArea", <<>>, None, <<Leaf("c:layout", <<>>)>>),
                El("c:legend", <<>>, None,
                   << ValLeaf("c:legendPos", <<"r">>), Leaf("c:layout", <<>>),
                      ValLeaf("c:overlay", <<"0">>) >>),
                ValLeaf("c:plotVisOnly", <<"1">>),
                ValLeaf("c:dispBlanksAs", <<"gap">>),
                ValLeaf("c:showDLblsOverMax", <<"0">>) >>),
          El("c:txPr", <<>>, None,
             << Leaf("a:bodyPr", <<>>),
                Leaf("a:lstStyle", <<>>),
                El("a:p", <<>>, None,
                   << El("a:pPr", <<>>, None, <<Leaf("a:defRPr", <<Attr("sz", <<"1800">>)>>)>>),
                      Leaf("a:endParaRPr", <<Attr("lang", <<"en-US">>)>>) >>) >>),
          El("c:externalData", <<Attr("r:id", rId)>>, None,
             <<ValLeaf("c:autoUpdate", <<"0">>)>>) >>)

\* CT_plotArea.new_plot_vars: the category axis
new_plot_vars ==
    El("c:catAx", <<>>, None,
       << ValLeaf("c:axId", <<"172167552">>),
          El("c:scaling", <<>>, None, <<ValLeaf("c:orientation", <<"minMax">>)>>),
          ValLeaf("c:delete", <<"0">>),
          ValLeaf("c:axPos", <<"b">>),
          ValLeaf("c:majorTickMark", <<"out">>),
          ValLeaf("c:minorTickMark", <<"none">>),
          ValLeaf("c:tickLblPos", <<"nextTo">>),
          ValLeaf("c:crossAx", <<"172169088">>),
          ValLeaf("c:crosses", <<"autoZero">>),
          ValLeaf("c:auto", <<"1">>),
          ValLeaf("c:lblAlgn", <<"ctr">>),
          ValLeaf("c:lblOffset", <<"100">>),
          ValLeaf("c:noMultiLvlLbl", <<"0">>) >>)

\* a value axis that names itself as the axis it crosses
PlotValVarsCrossesItself ==
    El("c:valAx", <<>>, None,
       << ValLeaf("c:axId", <<"172169088">>),
          El("c:scaling", <<>>, None, <<ValLeaf("c:orientation", <<"minMax">>)>>),
          ValLeaf("c:delete", <<"0">>),
          ValLeaf("c:axPos", <<"l">>),
          Leaf("c:majorGridlines", <<>>),
          Leaf("c:numFmt", <<Attr("formatCode", <<"General">>), Attr("sourceLinked", <<"1">>)>>),
          ValLeaf("c:majorTickMark", <<"out">>),
          ValLeaf("c:minorTickMark", <<"none">>),
          ValLeaf("c:tickLblPos", <<"nextTo">>),
          ValLeaf("c:crossAx", <<"172169088">>),
          ValLeaf("c:crosses", <<"autoZero">>),
          ValLeaf("c:crossBetween", <<"between">>) >>)

\* CT_plotArea.plot_val_vars: the value axis
plot_val_vars ==
    El("c:valAx", <<>>, None,
       << ValLeaf("c:axId", <<"172169088">>),
          El("c:scaling", <<>>, None, <<ValLeaf("c:orientation", <<"minMax">>)>>),
          ValLeaf("c:delete", <<"0">>),
          ValLeaf("c:axPos", <<"l">>),
          Leaf("c:majorGridlines", <<>>),
          Leaf("c:numFmt", <<Attr("formatCode", <<"General">>), Attr("sourceLinked", <<"1">>)>>),
          ValLeaf("c:majorTickMark", <<"out">>),
          ValLeaf("c:minorTickMark", <<"none">>),
          ValLeaf("c:tickLblPos", <<"nextTo">>),
          ValLeaf("c:crossAx", <<"172167552">>),
          ValLeaf("c:crosses", <<"autoZero">>),
          ValLeaf("c:crossBetween", <<"between">>) >>)

\* chartFrame['chart'].plotArea.append(elm)
AppendToPlotArea(chartFrame, elm) ==
    LET chart == Child(chartFrame, "c:chart")
    IN  ReplaceChild(chartFrame, "c:chart",
            ReplaceChild(chart, "c:plotArea", AppendChild(Child(chart, "c:plotArea"), elm)))

\* CT_Chart_Container.new_chart: [exc, elm]; each heading is wrapped in a
\* list of its own, and no heading at all gives one empty list
CT_Chart_Container_new_chart(data, headings_xlsx, rId) ==
    LET headings == IF Len(headings_xlsx) = 0 THEN << <<>> >>
                    ELSE [i \in 1..Len(headings_xlsx) |-> <<headings_xlsx[i]>>]
        chartFrame == new_chart_wrapper(rId)
        chart == CT_ChartCell_new_chart(data, headings)
    IN  IF chart.exc # "none" THEN [exc |-> chart.exc, elm |-> None]
        ELSE [exc |-> "none",
              elm |-> Some(AppendToPlotArea(
                          AppendToPlotArea(AppendToPlotArea(chartFrame, chart.elm[1]),
                                           new_plot_vars),
                          plot_val_vars))]

MaxPlotCols == 4

\* one column per entry of lens, column c holding lens[c] cells; the first
\* column holds the category labels
PlotData(lens) ==
    [c \in 1..Len(lens) |->
        [r \in 1..lens[c] |-> IF c = 1 THEN <<"c">> \o NatStr(r) ELSE NatStr(10 * c + r)]]

PlotHeadings(n) == [c \in 1..n |-> <<"h">> \o NatStr(c)]

NewChartSpace ==
    /\ ret = None /\ call = NoCall
    /\ \E k \in 1..MaxPlotCols, d \in {0 - 1, 0, 1} :
         \E lens \in [1..k -> 0..MaxChartRows] :
            LET data == PlotData(lens)
                r == CT_Chart_Container_new_chart(data, PlotHeadings(k + d), <<"rId1">>)
            IN  /\ ret' = r.elm
                /\ exc' = r.exc
                /\ call' = Call("CT_Chart_Container.new_chart", "", <<data, PyInt(k + d)>>)
    /\ UNCHANGED <<tbl, assigned, cp, nsets, tc, shape, graphicFrame, para>>

NextChartSpace == NewChartSpace

SpecChartSpace == InitCore /\ [][NextChartSpace]_vars

ChartSpaceBuilt == call.op = "CT_Chart_Container.new_chart" /\ exc = "none" /\ ret # None

\* the plot area of a chart space
PlotAreaOf(chartFrame) == Child(Child(chartFrame, "c:chart"), "c:plotArea")

\* the tags of the children of e, in order
TagsOf(e) == [i \in 1..Len(e.children) |-> e.children[i].tag]

\* C27: in every chart built by new_chart the line-chart block lists the
\* axis ids 172167552 and 172169088, in that order, after all its series;
\* the category axis has id 172167552 and crosses 172169088, the value axis
\* has id 172169088 and crosses 172167552; the children of the plot area
\* are, in order, layout, line chart, category axis, value axis.
C27_AxesWired ==
    ChartSpaceBuilt =>
        LET plotArea == PlotAreaOf(ret[1])
            lineChart == Child(plotArea, "c:lineChart")
            n == Len(lineChart.children)
            catAx == Child(plotArea, "c:catAx")
            valAx == Child(plotArea, "c:valAx")
        IN  /\ TagsOf(plotArea) = <<"c:layout", "c:lineChart", "c:catAx", "c:valAx">>
            /\ n >= 2
            /\ lineChart.children[n - 1] = ValLeaf("c:axId", <<"172167552">>)
            /\ lineChart.children[n] = ValLeaf("c:axId", <<"172169088">>)
            /\ \A i \in 1..(n - 2) : lineChart.children[i].tag # "c:axId"
            /\ \A i \in 1..n : lineChart.children[i].tag = "c:ser" => i < n - 1
            /\ GetAttr(Child(catAx, "c:axId"), "val") = Some(<<"172167552">>)
            /\ GetAttr(Child(catAx, "c:crossAx"), "val") = Some(<<"172169088">>)
            /\ GetAttr(Child(valAx, "c:axId"), "val") = Some(<<"172169088">>)
            /\ GetAttr(Child(valAx, "c:crossAx"), "val") = Some(<<"172167552">>)

\* three columns and three headings: two series, then the two axis ids
C27_Witness ==
    /\ ChartSpaceBuilt
    /\ Len(call.args[1]) = 3 /\ call.args[2] = PyInt(3)
    /\ Len(Series(Child(PlotAreaOf(ret[1]), "c:lineChart"))) = 2
    /\ Len(PlotAreaOf(ret[1]).children) = 4

\* the <c:pt> children of a cache, in order
PtsOf(cache) == SelectSeq(cache.children, LAMBDA c : c.tag = "c:pt")

\* a reference whose point count, points and formula all describe column:
\* as many points as the column has cells, numbered from 0 in order, and a
\* formula over the rows 2 .. count + 1 of the column lettered L
RefConsistent(ref, cacheTag, column, L) ==
    LET cache == Child(ref, cacheTag)
        pts == PtsOf(cache)
    IN  /\ GetAttr(Child(cache, "c:ptCount"), "val") = Some(NatStr(Len(pts)))
        /\ Len(pts) = Len(column)
        /\ \A i \in 1..Len(pts) :
              /\ GetAttr(pts[i], "idx") = Some(NatStr(i - 1))
              /\ Child(pts[i], "c:v").text = Some(column[i])
        /\ Child(ref, "c:f").text
              = Some(Sheet1 \o <<L, "$", "2", ":", "$", L, "$">> \o NatStr(Len(pts) + 1))

\* the last row a range formula names: the digits after its last "$"
RECURSIVE LastRow(_)
LastRow(f) ==
    IF Len(f) = 0 \/ f[Len(f)] = "$" THEN <<>>
    ELSE LastRow(SubSeq(f, 1, Len(f) - 1)) \o <<f[Len(f)]>>

\* C28: in every series, for any input columns, columns of unequal length
\* included, each reference is self-consistent: its point count equals the
\* number of cached points, the points are indexed 0 .. count-1 in input
\* order, and its formula spans exactly that many rows; so the category and
\* value formulas of one series end on the same last row.
C28_ReferencesSelfConsistent ==
    ChartSpaceBuilt =>
        LET data == call.args[1]
            sers == Series(Child(PlotAreaOf(ret[1]), "c:lineChart"))
        IN  \A i \in 1..Len(sers) :
               /\ RefConsistent(Child(sers[i], "c:cat").children[1], "c:strCache", data[1], "A")
               /\ RefConsistent(Child(sers[i], "c:val").children[1], "c:numCache", data[i + 1],
                                uppercase[i + 1])
               /\ LastRow(FormulaOf(sers[i], "c:cat")[1]) = LastRow(FormulaOf(sers[i], "c:val")[1])

====
